---- MODULE Spec2Model ----
(***************************************************************************)
(* cuco::static_multimap: a fixed-capacity open-addressing multimap in     *)
(* device memory.  The model covers the slot storage, the probe sequence   *)
(* engine (single-lane and cooperative-group forms), the lock-free insert  *)
(* of device_mutable_view and the lookups of device_view.                  *)
(*                                                                         *)
(* A cooperative group runs in lockstep: the lanes of one group take each  *)
(* step together, so a group is one process whose per-lane data are        *)
(* functions of the lane rank.  Every atomic access to a slot (the wide    *)
(* load of a window, a compare-exchange, a store) is one step; steps of    *)
(* different groups interleave freely.                                     *)
(***************************************************************************)
EXTENDS Integers, Sequences, FiniteSets, TLC

----------------------------------------------------------------------------
(* Bounds of the model *)

NumWindows == 2
\* number of windows of the widest group; capacity is derived from it

MaxKey == 2
\* keys are 0 .. MaxKey

MaxVal == 2
\* mapped values are 1 .. MaxVal

NumGroups == 3
\* probe groups that may run insert concurrently

MaxInserts == 3
\* insert calls in one execution

MaxInFlight == 2
\* inserts in flight at a time where the whole interface is explored

GroupSizes == {1, 2}

Keys == 0 .. MaxKey

Vals == 1 .. MaxVal

Groups == 1 .. NumGroups

Capacities == {NumWindows * 2 * g : g \in GroupSizes}

----------------------------------------------------------------------------
(* Sentinels and hash *)

empty_key_sentinel == -1

empty_value_sentinel == -2

seed_ == 0

RECURSIVE BitXor(_, _)
BitXor(a, b) ==
  IF a = 0 THEN b
  ELSE IF b = 0 THEN a
  ELSE (((a % 2) + (b % 2)) % 2) + 2 * BitXor(a \div 2, b \div 2)

\* IdentityHash_32<Key> for a 4-byte key: size >= sizeof(uint32_t), so h1 is
\* the key's 32-bit pattern, which for the non-negative keys of the model is
\* the key itself; the result is h1 ^ seed_.
IdentityHash_32(key) == BitXor(key, seed_)

hash(k) == IdentityHash_32(k)

----------------------------------------------------------------------------
VARIABLES
  capacity,        \* static_multimap::capacity_
  slots,           \* slots_[i] = [first |-> key, second |-> value]
  pc,              \* pc[g]: position of group g inside insert
  insert_pair,     \* insert_pair[g]: the pair group g is inserting
  cg_size,         \* cg_size[g]: g.size() of the running call (0: single lane)
  current_slot,    \* current_slot[g][rank]: slot index held by each lane
  step_size_,      \* step_size_[g]: window step set by initial_slot(g, k, hash)
  insert_location, \* insert_location[g]: slot the src_lane targets
  key_success,     \* key_success[g]: outcome of the key compare-exchange
  inserted,        \* history: inserted[<<k, v>>] = number of insert calls with (k, v)
  ncalls,          \* history: number of insert calls started
  lk,              \* the last lookup made on the device_view, or NoLookup
  lane_exit,       \* lane_exit[g][rank]: how each lane left its last loop iteration
  views,           \* the views handed out by get_device_view / get_device_mutable_view
  bulk,            \* the last bulk call: its operation, group size, returned or not
  input,           \* the input range [first, last) of the bulk call
  cursor,          \* number of input elements already handed to a group
  output,          \* the output range of the bulk call, position by position
  work,            \* work[g]: the input index group g is working on (0: none)
  total,           \* the counter shared by the groups of a bulk count / find_all
  hkey,            \* the bytes of the key given to the identity hash
  hseed,           \* the seed the identity hash was constructed with
  hres,            \* the last hash computed: its width and its bytes
  CUDART_VERSION,  \* the CUDA runtime version the code is compiled for
  copy_cg_size,    \* g.size() of the groups of the block that call make_copy
  memory_to_use,   \* memory_to_use[g]: the buffer group g hands to make_copy
  barrier,         \* the __shared__ cuda::barrier of the block, in make_copy
  mc               \* mc[g][rank]: position and result of each lane in make_copy

vars == <<capacity, slots, pc, insert_pair, cg_size, current_slot, step_size_,
          insert_location, key_success, inserted, ncalls, lk, lane_exit, views,
          bulk, input, cursor, output, work, total, hkey, hseed, hres,
          CUDART_VERSION, copy_cg_size, memory_to_use, barrier, mc>>

wvars == <<insert_pair, cg_size, current_slot, step_size_, insert_location,
           key_success, lane_exit>>

\* the state of the host bulk orchestrator
bvars == <<bulk, input, cursor, output, work, total>>

\* the state of the hash function under test
hvars == <<hkey, hseed, hres>>

\* the state of the calls of make_copy
cvars == <<CUDART_VERSION, copy_cg_size, memory_to_use, barrier, mc>>

xvars == <<bvars, hvars, cvars, views>>

Slots == 0 .. capacity - 1

\* the end() iterator: one past the last slot
end == capacity

EmptySlot == [first |-> empty_key_sentinel, second |-> empty_value_sentinel]

NoPair == [first |-> empty_key_sentinel, second |-> empty_value_sentinel]

NoLookup == [op |-> "none", n |-> 0, key |-> empty_key_sentinel, from |-> 0, res |-> 0]

Lanes(n) == 0 .. (IF n = 0 THEN 0 ELSE n - 1)

\* the group sizes the probe computation is defined for on this capacity:
\* capacity a multiple of the window size 2G, and at least two windows
ValidGroup(n) == capacity % (2 * n) = 0 /\ capacity \div (2 * n) >= 2

----------------------------------------------------------------------------
(* device_view_base: the sentinels a view holds, and the probe sequence engine *)

\* mutant: the view hands out the value sentinel as the key sentinel
get_empty_key_sentinel_swapped == empty_value_sentinel

get_empty_key_sentinel == empty_key_sentinel

get_empty_value_sentinel == empty_value_sentinel

\* single lane: &slots_[hash(k) % capacity_]
initial_slot(k) == hash(k) % capacity

\* mutant: no wrap back to begin_slot() after the last slot
next_slot_nowrap(s) == IF s + 1 < end THEN s + 1 ELSE s

\* single lane: (++s < end()) ? s : begin_slot()
next_slot(s) == IF s + 1 < end THEN s + 1 ELSE 0

\* mutant: the step is the remainder itself, without the + 1
step_size_no_plus_one(n, k) ==
  (hash(k + 1) % ((capacity \div (n * 2)) - 1)) * n * 2

\* cooperative group: the step_size_ assignment of initial_slot(g, k, hash)
step_size(n, k) ==
  ((hash(k + 1) % ((capacity \div (n * 2)) - 1)) + 1) * n * 2

\* mutant: the lanes of a group are placed one slot apart
initial_slot_cg_one_apart(n, r, k) ==
  ((hash(k) % (capacity \div (n * 2))) * n * 2) + r

\* cooperative group: slot_index of the lane of rank r
initial_slot_cg(n, r, k) ==
  ((hash(k) % (capacity \div (n * 2))) * n * 2) + (r * 2)

\* cooperative group: uint32_t index = s - slots_; (index + step_size_) % capacity_
\* (every index of the model is below 2^32, so the conversion keeps it)
next_slot_cg(s, step) == (s + step) % capacity

----------------------------------------------------------------------------
(* Construction: every slot is filled with the sentinel pair *)

\* no bulk operation has been called
NoBulkCall ==
  /\ bulk = [op |-> "none", n |-> 0, done |-> TRUE]
  /\ input = <<>>
  /\ cursor = 0
  /\ output = <<>>
  /\ work = [g \in Groups |-> 0]
  /\ total = 0

\* make_copy has not been called; the code is compiled for CUDA 11
NoCopyCall ==
  /\ CUDART_VERSION = 11000
  /\ copy_cg_size = 0
  /\ memory_to_use = [g \in Groups |-> <<>>]
  /\ barrier = [expected |-> 0, pending |-> 0, phase |-> 0]
  /\ mc = [g \in Groups |-> <<>>]

\* no hash has been computed
NoHashCall ==
  /\ hkey = <<>>
  /\ hseed = <<>>
  /\ hres = [width |-> 0, bytes |-> <<>>]

\* the storage and the per-call data once `capacity` slots are allocated
Initialized ==
  /\ slots = [i \in 0 .. capacity - 1 |-> EmptySlot]
  /\ pc = [g \in Groups |-> "idle"]
  /\ insert_pair = [g \in Groups |-> NoPair]
  /\ cg_size = [g \in Groups |-> 0]
  /\ current_slot = [g \in Groups |-> [r \in Lanes(0) |-> 0]]
  /\ step_size_ = [g \in Groups |-> 0]
  /\ insert_location = [g \in Groups |-> 0]
  /\ key_success = [g \in Groups |-> FALSE]
  /\ inserted = [p \in Keys \X Vals |-> 0]
  /\ ncalls = 0
  /\ lk = NoLookup
  /\ lane_exit = [g \in Groups |-> [r \in Lanes(0) |-> "none"]]

Constructed ==
  /\ capacity \in Capacities
  /\ Initialized

Init ==
  /\ Constructed
  /\ views = {}
  /\ NoBulkCall
  /\ NoHashCall
  /\ NoCopyCall

\* no insert call is in flight
Quiescent == \A g \in Groups : pc[g] = "idle"

\* the number of insert calls in flight
InFlight == Cardinality({g \in Groups : pc[g] # "idle"})

\* the bookkeeping common to the start of every insert call: the capacity
\* contract (no more pairs than slots), and the history of the pairs passed
CallInsert(g, k, v) ==
  /\ pc[g] = "idle"
  /\ \A h \in Groups : h < g => pc[h] # "idle"
  /\ ncalls < capacity
  /\ insert_pair' = [insert_pair EXCEPT ![g] = [first |-> k, second |-> v]]
  /\ inserted' = [inserted EXCEPT ![<<k, v>>] = @ + 1]
  /\ ncalls' = ncalls + 1
  /\ lk' = NoLookup

\* the lane whose slot pair holds insert_location: the lane that ran the
\* compare-exchanges (thread_rank() == src_lane)
inserting_lane(g) ==
  IF cg_size[g] = 0 THEN 0
  ELSE CHOOSE r \in Lanes(cg_size[g]) :
         insert_location[g] \in {current_slot[g][r], current_slot[g][r] + 1}

\* insert_result status of the lane of rank r when it reaches the vote:
\* SUCCESS only in the inserting lane, and only after key_success
status(g, r, ks) ==
  IF r = inserting_lane(g) /\ ks THEN "SUCCESS" ELSE "CONTINUE"

\* g.any(status == insert_result::SUCCESS), as the lane of rank r receives it
any_success(g, r, ks) ==
  \E q \in DOMAIN lane_exit[g] : status(g, q, ks) = "SUCCESS"

\* how each lane leaves the iteration at the vote: return, or retry the window
VoteExit(g, ks) ==
  [r \in DOMAIN lane_exit[g] |->
     IF any_success(g, r, ks) THEN "return" ELSE "retry"]

\* insert returns: the locals of the call go out of scope
Return(g) ==
  /\ pc' = [pc EXCEPT ![g] = "idle"]
  /\ insert_pair' = [insert_pair EXCEPT ![g] = NoPair]
  /\ cg_size' = [cg_size EXCEPT ![g] = 0]
  /\ current_slot' = [current_slot EXCEPT ![g] = [r \in Lanes(0) |-> 0]]
  /\ step_size_' = [step_size_ EXCEPT ![g] = 0]
  /\ insert_location' = [insert_location EXCEPT ![g] = 0]
  /\ key_success' = [key_success EXCEPT ![g] = FALSE]
  /\ lane_exit' = [lane_exit EXCEPT ![g] = [r \in Lanes(0) |-> "none"]]

----------------------------------------------------------------------------
(* device_mutable_view::insert(CG g, insert_pair, hash, key_equal) *)

\* auto current_slot = initial_slot(g, insert_pair.first, hash);
insert_cg_begin(g, k, v, n) ==
  /\ CallInsert(g, k, v)
  /\ ValidGroup(n)
  /\ pc' = [pc EXCEPT ![g] = "load"]
  /\ cg_size' = [cg_size EXCEPT ![g] = n]
  /\ current_slot' = [current_slot EXCEPT
                        ![g] = [r \in Lanes(n) |-> initial_slot_cg(n, r, k)]]
  /\ step_size_' = [step_size_ EXCEPT ![g] = step_size(n, k)]
  /\ lane_exit' = [lane_exit EXCEPT ![g] = [r \in Lanes(n) |-> "none"]]
  /\ UNCHANGED <<hvars, cvars, views, capacity, slots, insert_location, key_success>>

\* arr[0].first == get_empty_key_sentinel, seen by the lane of rank r
first_slot_is_empty(g, r) ==
  slots[current_slot[g][r]].first = get_empty_key_sentinel

\* arr[1].first == get_empty_key_sentinel, seen by the lane of rank r
second_slot_is_empty(g, r) ==
  slots[current_slot[g][r] + 1].first = get_empty_key_sentinel

\* g.ballot(first_slot_is_empty or second_slot_is_empty): the ranks voting true
window_contains_empty(g) ==
  {r \in Lanes(cg_size[g]) : first_slot_is_empty(g, r) \/ second_slot_is_empty(g, r)}

\* mutant: the highest rank of the ballot attempts the insert
src_lane_highest(g) ==
  CHOOSE r \in window_contains_empty(g) :
    \A q \in window_contains_empty(g) : r >= q

\* __ffs(window_contains_empty) - 1: the lowest rank of the ballot
src_lane(g) ==
  CHOOSE r \in window_contains_empty(g) :
    \A q \in window_contains_empty(g) : r <= q

\* mutant: the second slot of the lane is preferred when it is empty
InsertLocation_prefers_second(g) ==
  current_slot[g][src_lane(g)]
    + (IF second_slot_is_empty(g, src_lane(g)) THEN 1 ELSE 0)

\* current_slot + !(first_slot_is_empty), in the lane src_lane
InsertLocation(g) ==
  current_slot[g][src_lane(g)]
    + (IF first_slot_is_empty(g, src_lane(g)) THEN 0 ELSE 1)

\* mutant: a lane branches on the emptiness of its own two slots
takes_window_branch_own_slots(g, r) ==
  first_slot_is_empty(g, r) \/ second_slot_is_empty(g, r)

\* if (window_contains_empty), in the lane of rank r: every lane holds the
\* result of the ballot
takes_window_branch(g, r) == window_contains_empty(g) # {}

\* one pass of the loop head: the wide load of every lane's two slots, the
\* ballot, and either the choice of the inserting lane or the step to the
\* next window
insert_cg_load(g) ==
  /\ pc[g] = "load"
  /\ IF window_contains_empty(g) # {}
       THEN /\ insert_location' = [insert_location EXCEPT ![g] = InsertLocation(g)]
            /\ pc' = [pc EXCEPT ![g] = "key_cas"]
            /\ UNCHANGED current_slot
       ELSE /\ current_slot' = [current_slot EXCEPT ![g] =
                 [r \in Lanes(cg_size[g]) |->
                    next_slot_cg(current_slot[g][r], step_size_[g])]]
            /\ UNCHANGED <<insert_location, pc>>
  /\ lane_exit' = [lane_exit EXCEPT ![g] =
        [r \in Lanes(cg_size[g]) |->
           IF takes_window_branch(g, r) THEN "window" ELSE "advance"]]
  /\ UNCHANGED <<xvars, capacity, slots, insert_pair, cg_size, step_size_, key_success,
                 inserted, ncalls, lk>>

\* mutant: the key is stored without comparing with the empty sentinel
insert_cg_key_store(g) ==
  /\ pc[g] = "key_cas"
  /\ slots' = [slots EXCEPT ![insert_location[g]].first = insert_pair[g].first]
  /\ key_success' = [key_success EXCEPT ![g] = TRUE]
  /\ pc' = [pc EXCEPT ![g] = "value_cas"]
  /\ UNCHANGED <<xvars, capacity, insert_pair, cg_size, current_slot, step_size_,
                 insert_location, inserted, ncalls, lk, lane_exit>>

\* mutant: the value compare-exchange is made first, the key is only tested
insert_cg_key_cas_value_first(g) ==
  /\ pc[g] = "key_cas"
  /\ LET loc == insert_location[g] IN
       /\ slots' = IF slots[loc].second = get_empty_value_sentinel
                      THEN [slots EXCEPT ![loc].second = insert_pair[g].second]
                      ELSE slots
       /\ key_success' = [key_success EXCEPT
                            ![g] = slots[loc].first = get_empty_key_sentinel]
  /\ pc' = [pc EXCEPT ![g] = "value_cas"]
  /\ UNCHANGED <<xvars, capacity, insert_pair, cg_size, current_slot, step_size_,
                 insert_location, inserted, ncalls, lk, lane_exit>>

\* slot_key.compare_exchange_strong(expected_key, insert_pair.first)
insert_cg_key_cas(g) ==
  /\ pc[g] = "key_cas"
  /\ LET loc == insert_location[g] IN
       IF slots[loc].first = get_empty_key_sentinel
         THEN /\ slots' = [slots EXCEPT ![loc].first = insert_pair[g].first]
              /\ key_success' = [key_success EXCEPT ![g] = TRUE]
         ELSE /\ UNCHANGED slots
              /\ key_success' = [key_success EXCEPT ![g] = FALSE]
  /\ pc' = [pc EXCEPT ![g] = "value_cas"]
  /\ UNCHANGED <<xvars, capacity, insert_pair, cg_size, current_slot, step_size_,
                 insert_location, inserted, ncalls, lk, lane_exit>>

\* mutant: a lane that lost the key stores the empty value sentinel whether or
\* not its own value compare-exchange succeeded
insert_cg_value_cas_rollback_always(g) ==
  /\ pc[g] = "value_cas"
  /\ LET loc == insert_location[g]
         value_success == slots[loc].second = get_empty_value_sentinel
     IN  /\ slots' = IF value_success
                       THEN [slots EXCEPT ![loc].second = insert_pair[g].second]
                       ELSE slots
         /\ IF key_success[g] /\ value_success
              THEN Return(g)
              ELSE /\ pc' = [pc EXCEPT ![g] =
                        IF key_success[g] THEN "value_loop" ELSE "rollback"]
                   /\ UNCHANGED wvars
  /\ UNCHANGED <<xvars, capacity, inserted, ncalls, lk>>

\* slot_value.compare_exchange_strong(expected_value, insert_pair.second), and
\* the branch on (key_success, value_success) up to the vote g.any(SUCCESS)
insert_cg_value_cas(g) ==
  /\ pc[g] = "value_cas"
  /\ LET loc == insert_location[g]
         value_success == slots[loc].second = get_empty_value_sentinel
     IN  /\ slots' = IF value_success
                       THEN [slots EXCEPT ![loc].second = insert_pair[g].second]
                       ELSE slots
         /\ IF key_success[g] /\ value_success
              THEN Return(g)
              ELSE /\ pc' = [pc EXCEPT ![g] =
                        IF key_success[g] THEN "value_loop"
                        ELSE IF value_success THEN "rollback"
                        ELSE "load"]
                   /\ lane_exit' = [lane_exit EXCEPT ![g] =
                        IF key_success[g] \/ value_success THEN @
                        ELSE VoteExit(g, FALSE)]
                   /\ UNCHANGED <<insert_pair, cg_size, current_slot, step_size_,
                                  insert_location, key_success>>
  /\ UNCHANGED <<xvars, capacity, inserted, ncalls, lk>>

\* while (not value_success) value_success = slot_value.compare_exchange_strong(
\*   expected_value = get_empty_value_sentinel, insert_pair.second)
insert_cg_value_loop(g) ==
  /\ pc[g] = "value_loop"
  /\ LET loc == insert_location[g] IN
       IF slots[loc].second = get_empty_value_sentinel
         THEN /\ slots' = [slots EXCEPT ![loc].second = insert_pair[g].second]
              /\ Return(g)
         ELSE UNCHANGED <<slots, pc, wvars>>
  /\ UNCHANGED <<xvars, capacity, inserted, ncalls, lk>>

\* mutant: the lane leaves its value in the slot
insert_cg_rollback_no_store(g) ==
  /\ pc[g] = "rollback"
  /\ pc' = [pc EXCEPT ![g] = "load"]
  /\ lane_exit' = [lane_exit EXCEPT ![g] = VoteExit(g, FALSE)]
  /\ UNCHANGED <<xvars, capacity, slots, insert_pair, cg_size, current_slot,
                 step_size_, insert_location, key_success, inserted, ncalls, lk>>

\* mutant: after the store the group moves on to the next window
insert_cg_rollback_next_window(g) ==
  /\ pc[g] = "rollback"
  /\ slots' = [slots EXCEPT ![insert_location[g]].second = get_empty_value_sentinel]
  /\ pc' = [pc EXCEPT ![g] = "load"]
  /\ lane_exit' = [lane_exit EXCEPT ![g] = VoteExit(g, FALSE)]
  /\ current_slot' = [current_slot EXCEPT ![g] =
        [r \in Lanes(cg_size[g]) |->
           next_slot_cg(current_slot[g][r], step_size_[g])]]
  /\ UNCHANGED <<xvars, capacity, insert_pair, cg_size, step_size_,
                 insert_location, key_success, inserted, ncalls, lk>>

\* else if (value_success) slot_value.store(get_empty_value_sentinel); then no lane
\* reports SUCCESS and the group retries the same window
insert_cg_rollback(g) ==
  /\ pc[g] = "rollback"
  /\ slots' = [slots EXCEPT ![insert_location[g]].second = get_empty_value_sentinel]
  /\ pc' = [pc EXCEPT ![g] = "load"]
  /\ lane_exit' = [lane_exit EXCEPT ![g] = VoteExit(g, FALSE)]
  /\ UNCHANGED <<xvars, capacity, insert_pair, cg_size, current_slot, step_size_,
                 insert_location, key_success, inserted, ncalls, lk>>

----------------------------------------------------------------------------
(* device_mutable_view::insert(insert_pair, hash, key_equal): single lane *)

insert_begin(g, k, v) ==
  /\ CallInsert(g, k, v)
  /\ pc' = [pc EXCEPT ![g] = "read"]
  /\ current_slot' = [current_slot EXCEPT
                        ![g] = [r \in Lanes(0) |-> initial_slot(k)]]
  /\ UNCHANGED <<hvars, cvars, views, capacity, slots, cg_size, step_size_,
                 insert_location, key_success, lane_exit>>

\* read the slot key; if it is not the empty sentinel, advance and retry
insert_read(g) ==
  /\ pc[g] = "read"
  /\ IF slots[current_slot[g][0]].first # get_empty_key_sentinel
       THEN /\ current_slot' = [current_slot EXCEPT
                                  ![g][0] = next_slot(current_slot[g][0])]
            /\ UNCHANGED pc
       ELSE /\ pc' = [pc EXCEPT ![g] = "s_key_cas"]
            /\ UNCHANGED current_slot
  /\ UNCHANGED <<xvars, capacity, slots, insert_pair, cg_size, step_size_,
                 insert_location, key_success, inserted, ncalls, lk, lane_exit>>

\* compare-and-swap of the key field from the empty sentinel to the new key;
\* on failure continue probing the next slot
insert_key_cas(g) ==
  /\ pc[g] = "s_key_cas"
  /\ LET loc == current_slot[g][0] IN
       IF slots[loc].first = get_empty_key_sentinel
         THEN /\ slots' = [slots EXCEPT ![loc].first = insert_pair[g].first]
              /\ pc' = [pc EXCEPT ![g] = "s_value_cas"]
              /\ UNCHANGED current_slot
         ELSE /\ current_slot' = [current_slot EXCEPT ![g][0] = next_slot(loc)]
              /\ pc' = [pc EXCEPT ![g] = "read"]
              /\ UNCHANGED slots
  /\ UNCHANGED <<xvars, capacity, insert_pair, cg_size, step_size_, insert_location,
                 key_success, inserted, ncalls, lk, lane_exit>>

\* compare-and-swap loop of the value field from the empty value sentinel
insert_value_cas(g) ==
  /\ pc[g] = "s_value_cas"
  /\ LET loc == current_slot[g][0] IN
       IF slots[loc].second = get_empty_value_sentinel
         THEN /\ slots' = [slots EXCEPT ![loc].second = insert_pair[g].second]
              /\ Return(g)
         ELSE UNCHANGED <<slots, pc, wvars>>
  /\ UNCHANGED <<xvars, capacity, inserted, ncalls, lk>>

----------------------------------------------------------------------------
(* device_view: lookups.  A lookup is made only while no insert is in      *)
(* flight (concurrent insert and lookup are excluded by the view types).   *)
(* A scan that has made `capacity` probes (or, for a group, one probe per  *)
(* window) without returning is back where it started on unchanged slots:  *)
(* it never returns, which the operators report as the position Diverges.  *)

Diverges == end + 1

\* find(k): probe from initial_slot; a matching key returns the slot, the
\* empty sentinel returns end(), anything else continues with next_slot
RECURSIVE find_from(_, _, _)
find_from(s, k, fuel) ==
  IF fuel = 0 THEN Diverges
  ELSE IF slots[s].first = get_empty_key_sentinel THEN end
  ELSE IF slots[s].first = k THEN s
  ELSE find_from(next_slot(s), k, fuel - 1)

find(k) == find_from(initial_slot(k), k, capacity)

\* contains(k): the boolean equivalent of find
contains(k) == find(k) # end

\* count(k): the same scan, counting every match until an empty slot
RECURSIVE count_from(_, _, _, _)
count_from(s, k, fuel, acc) ==
  IF fuel = 0 THEN Diverges
  ELSE IF slots[s].first = get_empty_key_sentinel THEN acc
  ELSE count_from(next_slot(s), k, fuel - 1,
                  IF slots[s].first = k THEN acc + 1 ELSE acc)

count(k) == count_from(initial_slot(k), k, capacity, 0)

\* the lanes of the group, each inspecting the slot it points at
LaneSlots(n, base) == {base + 2 * r : r \in Lanes(n)}

Lowest(S) == CHOOSE x \in S : \A y \in S : x <= y

\* find(g, k): the lanes vote on "match found" and "empty found" in the
\* current window and advance together with the group step
RECURSIVE find_cg_from(_, _, _, _)
find_cg_from(n, base, k, fuel) ==
  LET exists == {s \in LaneSlots(n, base) : slots[s].first = k}
      empties == {s \in LaneSlots(n, base) : slots[s].first = get_empty_key_sentinel}
  IN  IF fuel = 0 THEN Diverges
      ELSE IF exists # {} THEN Lowest(exists)
      ELSE IF empties # {} THEN end
      ELSE find_cg_from(n, next_slot_cg(base, step_size(n, k)), k, fuel - 1)

find_cg(n, k) ==
  find_cg_from(n, initial_slot_cg(n, 0, k), k, capacity \div (2 * n))

contains_cg(n, k) == find_cg(n, k) # end

\* count(g, k): every lane that finds a match records it, over the whole scan
RECURSIVE count_cg_from(_, _, _, _, _)
count_cg_from(n, base, k, fuel, acc) ==
  LET exists == {s \in LaneSlots(n, base) : slots[s].first = k}
      empties == {s \in LaneSlots(n, base) : slots[s].first = get_empty_key_sentinel}
  IN  IF fuel = 0 THEN Diverges
      ELSE IF empties # {} THEN acc + Cardinality(exists)
      ELSE count_cg_from(n, next_slot_cg(base, step_size(n, k)), k, fuel - 1,
                         acc + Cardinality(exists))

count_cg(n, k) ==
  count_cg_from(n, initial_slot_cg(n, 0, k), k, capacity \div (2 * n), 0)

\* FancyIterator::next_slot: (++it < end_) ? it : begin_
fancy_next_slot(it) == IF it + 1 < end THEN it + 1 ELSE 0

\* FancyIterator::operator++: the while loop, entered at slot s
RECURSIVE increment_loop(_, _, _)
increment_loop(s, k, fuel) ==
  IF fuel = 0 THEN Diverges
  ELSE IF slots[s].first = k THEN s
  ELSE IF slots[s].first = get_empty_key_sentinel THEN end
  ELSE increment_loop(fancy_next_slot(s), k, fuel - 1)

\* mutant: the loop is entered at the current slot, without a first step
increment_no_first_step(cur, k) == increment_loop(cur, k, capacity)

\* FancyIterator::operator++ on an iterator at slot cur: the new current_
increment(cur, k) == increment_loop(fancy_next_slot(cur), k, capacity)

\* the slot keys FancyIterator::operator++ compares with key_
\* (current_->first != key_), in the loop entered at slot s
RECURSIVE increment_loop_compared(_, _, _)
increment_loop_compared(s, k, fuel) ==
  IF fuel = 0 THEN {}
  ELSE {slots[s].first} \cup
       (IF slots[s].first = k THEN {}
        ELSE IF slots[s].first = get_empty_key_sentinel THEN {}
        ELSE increment_loop_compared(fancy_next_slot(s), k, fuel - 1))

increment_compared(cur, k) ==
  increment_loop_compared(fancy_next_slot(cur), k, capacity)

\* the slot keys a single-lane scan (find, contains, find_all, count) compares
\* with k: the empty sentinel is tested first and ends the scan
RECURSIVE scan_compared(_, _, _, _)
scan_compared(s, k, fuel, to_first_match) ==
  IF fuel = 0 \/ slots[s].first = get_empty_key_sentinel THEN {}
  ELSE {slots[s].first} \cup
       (IF to_first_match /\ slots[s].first = k THEN {}
        ELSE scan_compared(next_slot(s), k, fuel - 1, to_first_match))

\* the slot keys a group scan compares with k: each lane tests its slot for
\* the empty sentinel first
RECURSIVE scan_cg_compared(_, _, _, _, _)
scan_cg_compared(n, base, k, fuel, to_first_match) ==
  LET filled == {s \in LaneSlots(n, base) : slots[s].first # get_empty_key_sentinel}
      keys == {slots[s].first : s \in filled}
  IN  IF fuel = 0 THEN {}
      ELSE keys \cup
           (IF filled # LaneSlots(n, base) \/ (to_first_match /\ k \in keys) THEN {}
            ELSE scan_cg_compared(n, next_slot_cg(base, step_size(n, k)), k,
                                  fuel - 1, to_first_match))

\* find_all(k): begins like find
find_all(k) == find(k)

\* find_all(g, k): begins like find(g, k)
find_all_cg(n, k) == find_cg(n, k)

\* the slots an iteration yields: from its first result by repeated
\* operator++ until end(), cut after `fuel` results
RECURSIVE Yielded(_, _, _)
Yielded(cur, k, fuel) ==
  IF cur = end \/ cur = Diverges \/ fuel = 0 THEN <<>>
  ELSE <<cur>> \o Yielded(increment(cur, k), k, fuel - 1)

\* a lookup call that returns: its result is recorded, nothing else changes
Lookup(op, n, k, from, res) ==
  /\ Quiescent
  /\ lk' = [op |-> op, n |-> n, key |-> k, from |-> from, res |-> res]
  /\ UNCHANGED <<xvars, capacity, slots, pc, wvars, inserted, ncalls>>

do_find(k) ==
  /\ find(k) # Diverges
  /\ Lookup("find", 0, k, 0, find(k))

do_find_cg(n, k) ==
  /\ ValidGroup(n)
  /\ find_cg(n, k) # Diverges
  /\ Lookup("find", n, k, 0, find_cg(n, k))

do_contains(k) ==
  /\ find(k) # Diverges
  /\ Lookup("contains", 0, k, 0, contains(k))

do_contains_cg(n, k) ==
  /\ ValidGroup(n)
  /\ find_cg(n, k) # Diverges
  /\ Lookup("contains", n, k, 0, contains_cg(n, k))

do_count(k) ==
  /\ count(k) # Diverges
  /\ Lookup("count", 0, k, 0, count(k))

do_count_cg(n, k) ==
  /\ ValidGroup(n)
  /\ count_cg(n, k) # Diverges
  /\ Lookup("count", n, k, 0, count_cg(n, k))

do_find_all(k) ==
  /\ find_all(k) # Diverges
  /\ Lookup("find_all", 0, k, 0, find_all(k))

do_find_all_cg(n, k) ==
  /\ ValidGroup(n)
  /\ find_all_cg(n, k) # Diverges
  /\ Lookup("find_all", n, k, 0, find_all_cg(n, k))

\* mutant: operator++ empties the slot it leaves
do_increment_marking ==
  /\ Quiescent
  /\ lk.op \in {"find_all", "increment"}
  /\ lk.res # end
  /\ increment(lk.res, lk.key) # Diverges
  /\ lk' = [op |-> "increment", n |-> lk.n, key |-> lk.key, from |-> lk.res,
            res |-> increment(lk.res, lk.key)]
  /\ slots' = [slots EXCEPT ![lk.res].first = get_empty_key_sentinel]
  /\ UNCHANGED <<xvars, capacity, pc, wvars, inserted, ncalls>>

\* ++it on the iterator the last find_all or ++ returned
do_increment ==
  /\ lk.op \in {"find_all", "increment"}
  /\ lk.res # end
  /\ increment(lk.res, lk.key) # Diverges
  /\ Lookup("increment", lk.n, lk.key, lk.res, increment(lk.res, lk.key))

----------------------------------------------------------------------------
\* the steps of insert(g, pair)
InsertStepCG(g) ==
  \/ insert_cg_load(g)
  \/ insert_cg_key_cas(g)
  \/ insert_cg_value_cas(g)
  \/ insert_cg_value_loop(g)
  \/ insert_cg_rollback(g)

InsertStep(g) ==
  \/ insert_cg_load(g)
  \/ insert_cg_key_cas(g)
  \/ insert_cg_value_cas(g)
  \/ insert_cg_value_loop(g)
  \/ insert_cg_rollback(g)
  \/ insert_read(g)
  \/ insert_key_cas(g)
  \/ insert_value_cas(g)

Next ==
  \/ /\ ncalls < MaxInserts
     /\ InFlight < MaxInFlight
     /\ \E g \in Groups, k \in Keys, v \in Vals, n \in GroupSizes :
          insert_cg_begin(g, k, v, n) /\ UNCHANGED bvars
  \/ /\ ncalls < MaxInserts
     /\ InFlight < MaxInFlight
     /\ \E g \in Groups, k \in Keys, v \in Vals :
          insert_begin(g, k, v) /\ UNCHANGED bvars
  \/ \E g \in Groups : InsertStep(g)
  \/ \E k \in Keys : do_find(k)
  \/ \E k \in Keys, n \in GroupSizes : do_find_cg(n, k)
  \/ \E k \in Keys : do_contains(k)
  \/ \E k \in Keys, n \in GroupSizes : do_contains_cg(n, k)
  \/ \E k \in Keys : do_count(k)
  \/ \E k \in Keys, n \in GroupSizes : do_count_cg(n, k)
  \/ \E k \in Keys : do_find_all(k)
  \/ \E k \in Keys, n \in GroupSizes : do_find_all_cg(n, k)
  \/ do_increment

Spec == Init /\ [][Next]_vars

----------------------------------------------------------------------------
(* Progress of insert: the groups a GPU has launched keep being scheduled, *)
(* so every group that can take a step of insert eventually takes one.     *)

MaxInsertsLive == 5

LiveKeys == {0, 1}

LiveVals == {1}

NextLive ==
  \/ /\ ncalls < MaxInsertsLive
     /\ InFlight < MaxInFlight
     /\ \E g \in Groups, k \in LiveKeys, v \in LiveVals, n \in GroupSizes :
          insert_cg_begin(g, k, v, n) /\ UNCHANGED bvars
  \/ /\ ncalls < MaxInsertsLive
     /\ InFlight < MaxInFlight
     /\ \E g \in Groups, k \in LiveKeys, v \in LiveVals :
          insert_begin(g, k, v) /\ UNCHANGED bvars
  \/ \E g \in Groups : InsertStep(g)

LiveSpec ==
  Init /\ [][NextLive]_vars /\ \A g \in Groups : WF_vars(InsertStep(g))

----------------------------------------------------------------------------
(* Races on one slot: every group may be inside the group insert at the    *)
(* same time, so that an insert that wins a key can have several           *)
(* competitors that lost it.                                               *)

MaxInsertsRace == 3

RaceNext ==
  \/ /\ ncalls < MaxInsertsRace
     /\ \E g \in Groups, k \in Keys, v \in Vals, n \in GroupSizes :
          insert_cg_begin(g, k, v, n) /\ UNCHANGED bvars
  \/ \E g \in Groups : InsertStepCG(g)

RaceSpec == Init /\ [][RaceNext]_vars

\* the groups of a launched kernel keep being scheduled
RaceLiveSpec ==
  /\ Init
  /\ [][\/ /\ ncalls < MaxInsertsRace
          /\ \E g \in Groups, k \in LiveKeys, v \in LiveVals, n \in GroupSizes :
               insert_cg_begin(g, k, v, n) /\ UNCHANGED bvars
       \/ \E g \in Groups : InsertStepCG(g)]_vars
  /\ \A g \in Groups : WF_vars(InsertStepCG(g))

----------------------------------------------------------------------------
(* Group probing on any capacity: the constructor takes any number of      *)
(* slots, and insert(g, pair) computes its probe sequence from it whether  *)
(* or not the windows of 2G slots divide it.  Two computations have no     *)
(* defined result: the remainder by capacity_ / (2G) - 1 when that is 0,   *)
(* and the wide load of a slot pair that is not wholly inside the storage  *)
(* or not at a multiple of its own size.  Each of them is a choice among   *)
(* the outcomes a device produces.                                         *)

MaxProbeCapacity == 8

MaxInsertsProbe == 5

ProbeInit ==
  /\ capacity \in 2 .. MaxProbeCapacity
  /\ Initialized
  /\ views = {}
  /\ NoBulkCall
  /\ NoHashCall
  /\ NoCopyCall

\* capacity_ / (cg_size * 2) - 1: the divisor of hash(k + 1) in step_size_
StepDivisor(n) == (capacity \div (n * 2)) - 1

\* the values step_size_ can get in initial_slot(g, k, hash): the remainder
\* hash(k + 1) % (capacity_ / (cg_size * 2) - 1) by zero is undefined, the
\* device delivers some value
StepSizes(n, k) ==
  {(x + 1) * n * 2 :
     x \in IF StepDivisor(n) = 0
             THEN 0 .. hash(k + 1)
             ELSE {hash(k + 1) % StepDivisor(n)}}

\* auto current_slot = initial_slot(g, insert_pair.first, hash), on a
\* capacity of at least one window
insert_cg_begin_any_capacity(g, k, v, n) ==
  /\ CallInsert(g, k, v)
  /\ capacity >= 2 * n
  /\ pc' = [pc EXCEPT ![g] = "load"]
  /\ cg_size' = [cg_size EXCEPT ![g] = n]
  /\ current_slot' = [current_slot EXCEPT
                        ![g] = [r \in Lanes(n) |-> initial_slot_cg(n, r, k)]]
  /\ \E step \in StepSizes(n, k) :
       step_size_' = [step_size_ EXCEPT ![g] = step]
  /\ lane_exit' = [lane_exit EXCEPT ![g] = [r \in Lanes(n) |-> "none"]]
  /\ UNCHANGED <<hvars, cvars, views, capacity, slots, insert_location, key_success>>

\* both slots of every lane's pair are slots of the storage
LoadInRange(g) ==
  \A r \in Lanes(cg_size[g]) : current_slot[g][r] + 1 < capacity

\* the kernel is aborted: no group takes a further step
Abort ==
  /\ pc' = [g \in Groups |-> "fault"]
  /\ insert_pair' = [g \in Groups |-> NoPair]
  /\ cg_size' = [g \in Groups |-> 0]
  /\ current_slot' = [g \in Groups |-> [r \in Lanes(0) |-> 0]]
  /\ step_size_' = [g \in Groups |-> 0]
  /\ insert_location' = [g \in Groups |-> 0]
  /\ key_success' = [g \in Groups |-> FALSE]
  /\ lane_exit' = [g \in Groups |-> [r \in Lanes(0) |-> "none"]]

\* the wide load of a pair that is not wholly inside the storage, or does
\* not start at a multiple of its size (an even slot index), raises a
\* device fault
insert_cg_load_fault(g) ==
  /\ pc[g] = "load"
  /\ \/ ~LoadInRange(g)
     \/ \E r \in Lanes(cg_size[g]) : current_slot[g][r] % 2 # 0
  /\ Abort
  /\ UNCHANGED <<xvars, capacity, slots, inserted, ncalls, lk>>

\* the wide load of a pair whose second half lies past the last slot
\* delivers whatever is stored there: second_is_empty tells whether it
\* compares equal to the empty key sentinel.  The rest of the iteration is
\* the one of insert_cg_load; a compare-exchange aimed past the last slot
\* is not made on the storage.
insert_cg_load_out_of_range(g, second_is_empty) ==
  /\ pc[g] = "load"
  /\ ~LoadInRange(g)
  /\ LET n == cg_size[g]
         first_empty(r) ==
           slots[current_slot[g][r]].first = get_empty_key_sentinel
         second_empty(r) ==
           IF current_slot[g][r] + 1 < capacity
             THEN slots[current_slot[g][r] + 1].first = get_empty_key_sentinel
             ELSE second_is_empty
         ballot == {r \in Lanes(n) : first_empty(r) \/ second_empty(r)}
         src == CHOOSE r \in ballot : \A q \in ballot : r <= q
         loc == current_slot[g][src] + (IF first_empty(src) THEN 0 ELSE 1)
     IN  IF ballot = {}
           THEN /\ current_slot' = [current_slot EXCEPT ![g] =
                     [r \in Lanes(n) |->
                        next_slot_cg(current_slot[g][r], step_size_[g])]]
                /\ lane_exit' = [lane_exit EXCEPT ![g] =
                     [r \in Lanes(n) |-> "advance"]]
                /\ UNCHANGED <<insert_location, pc, insert_pair, cg_size,
                               step_size_, key_success>>
           ELSE IF loc < capacity
             THEN /\ insert_location' = [insert_location EXCEPT ![g] = loc]
                  /\ pc' = [pc EXCEPT ![g] = "key_cas"]
                  /\ lane_exit' = [lane_exit EXCEPT ![g] =
                       [r \in Lanes(n) |-> "window"]]
                  /\ UNCHANGED <<current_slot, insert_pair, cg_size,
                                 step_size_, key_success>>
             ELSE Abort
  /\ UNCHANGED <<xvars, capacity, slots, inserted, ncalls, lk>>

ProbeNext ==
  \/ /\ ncalls < MaxInsertsProbe
     /\ InFlight < MaxInFlight
     /\ \E g \in Groups, k \in LiveKeys, v \in LiveVals, n \in GroupSizes :
          insert_cg_begin_any_capacity(g, k, v, n) /\ UNCHANGED bvars
  \/ \E g \in Groups : LoadInRange(g) /\ insert_cg_load(g)
  \/ \E g \in Groups : insert_cg_key_cas(g)
  \/ \E g \in Groups : insert_cg_value_cas(g)
  \/ \E g \in Groups : insert_cg_value_loop(g)
  \/ \E g \in Groups : insert_cg_rollback(g)
  \/ \E g \in Groups, b \in BOOLEAN : insert_cg_load_out_of_range(g, b)
  \/ \E g \in Groups : insert_cg_load_fault(g)

ProbeSpec == ProbeInit /\ [][ProbeNext]_vars

----------------------------------------------------------------------------
(* Views: get_device_view and get_device_mutable_view build a view from    *)
(* the members of the container.  The storage of the container is the one  *)
(* array `slots`; slots_ is its address.                                   *)

\* static_multimap::slots_: the pointer to the flat slots storage
slots_ == "slots_"

\* device_view_base(slots, capacity, empty_key_sentinel, empty_value_sentinel)
device_view_base(s, c, k, v) ==
  [slots_ |-> s, capacity_ |-> c, empty_key_sentinel_ |-> k,
   empty_value_sentinel_ |-> v]

device_view(s, c, k, v) ==
  [kind |-> "device_view", base |-> device_view_base(s, c, k, v)]

device_mutable_view(s, c, k, v) ==
  [kind |-> "device_mutable_view", base |-> device_view_base(s, c, k, v)]

\* the view refers to the storage, capacity and sentinels the operations of
\* the model work on
OnContainer(w) ==
  w.base = device_view_base(slots_, capacity, get_empty_key_sentinel,
                            get_empty_value_sentinel)

get_device_view ==
  /\ views' = views \cup
       {device_view(slots_, capacity, empty_key_sentinel, empty_value_sentinel)}
  /\ UNCHANGED <<capacity, slots, pc, wvars, inserted, ncalls, lk, bvars, hvars, cvars>>

get_device_mutable_view ==
  /\ views' = views \cup
       {device_mutable_view(slots_, capacity, empty_key_sentinel,
                            empty_value_sentinel)}
  /\ UNCHANGED <<capacity, slots, pc, wvars, inserted, ncalls, lk, bvars, hvars, cvars>>

\* insert through a mutable view that was handed out
view_insert_cg(g, k, v, n) ==
  /\ \E w \in views : w.kind = "device_mutable_view" /\ OnContainer(w)
  /\ insert_cg_begin(g, k, v, n)
  /\ UNCHANGED bvars

view_insert(g, k, v) ==
  /\ \E w \in views : w.kind = "device_mutable_view" /\ OnContainer(w)
  /\ insert_begin(g, k, v)
  /\ UNCHANGED bvars

\* find through a read view that was handed out
view_find(k) ==
  /\ \E w \in views : w.kind = "device_view" /\ OnContainer(w)
  /\ do_find(k)

MaxInsertsView == 2

ViewNext ==
  \/ get_device_view
  \/ get_device_mutable_view
  \/ /\ ncalls < MaxInsertsView
     /\ \E g \in Groups, k \in Keys, v \in Vals, n \in GroupSizes :
          view_insert_cg(g, k, v, n)
  \/ /\ ncalls < MaxInsertsView
     /\ \E g \in Groups, k \in Keys, v \in Vals : view_insert(g, k, v)
  \/ \E g \in Groups : InsertStep(g)
  \/ \E k \in Keys : view_find(k)

ViewSpec == Init /\ [][ViewNext]_vars

----------------------------------------------------------------------------
(* device_view::make_copy(g, memory_to_use, source_device_view).  The      *)
(* lanes of a group take their steps one by one.  The groups that call it  *)
(* are groups of one thread block: barrier is a __shared__ object, one per *)
(* block.  The code has two forms, chosen by CUDART_VERSION when it is     *)
(* compiled.  The source view is the view of the container; no insert runs *)
(* once a copy has been called for.                                        *)

MaxInsertsCopy == 2

MaxCopiers == 2

CopyInit ==
  /\ Constructed
  /\ views = {}
  /\ NoBulkCall
  /\ NoHashCall
  /\ CUDART_VERSION \in {10020, 11000}
  /\ copy_cg_size \in GroupSizes
  /\ memory_to_use = [g \in Groups |-> <<>>]
  /\ barrier = [expected |-> 0, pending |-> 0, phase |-> 0]
  /\ mc = [g \in Groups |-> <<>>]

\* the groups that have called make_copy
Copiers == {g \in Groups : mc[g] # <<>>}

\* the order of the positions of a lane inside make_copy
PcOrder ==
  [init |-> 0, loop |-> 0, sync |-> 1, memcpy_async |-> 2,
   arrive_and_wait |-> 3, wait |-> 4, returned |-> 5]

\* the group g calls make_copy(g, memory_to_use, view) with its own buffer,
\* whose slots hold a pair that is in no slot of the source
make_copy(g) ==
  /\ Quiescent
  /\ mc[g] = <<>>
  /\ \A h \in Groups : h < g => mc[h] # <<>>
  /\ Cardinality(Copiers) < MaxCopiers
  /\ memory_to_use' = [memory_to_use EXCEPT
                         ![g] = [i \in 0 .. capacity - 1 |->
                                   [first |-> empty_value_sentinel,
                                    second |-> empty_key_sentinel]]]
  /\ mc' = [mc EXCEPT ![g] =
              [r \in Lanes(copy_cg_size) |->
                 IF CUDART_VERSION >= 11000
                   THEN [pc |-> "init", i |-> 0, token |-> 0, ret |-> <<>>]
                   ELSE [pc |-> "loop", i |-> r, token |-> 0, ret |-> <<>>]]]
  /\ UNCHANGED <<CUDART_VERSION, copy_cg_size, barrier>>

\* the step of a lane inside make_copy touches nothing but the copy
CopyFrame ==
  UNCHANGED <<bvars, hvars, views, capacity, slots, pc, wvars, inserted, ncalls,
              lk, CUDART_VERSION, copy_cg_size>>

\* if (g.thread_rank() == 0) { init(&barrier, g.size()); }
make_copy_init(g, r) ==
  /\ r \in DOMAIN mc[g]
  /\ mc[g][r].pc = "init"
  /\ barrier' = IF r = 0
                  THEN [expected |-> copy_cg_size, pending |-> copy_cg_size,
                        phase |-> 0]
                  ELSE barrier
  /\ mc' = [mc EXCEPT ![g][r].pc = "sync"]
  /\ UNCHANGED memory_to_use
  /\ CopyFrame

\* the view every lane returns
copy_view(g) ==
  device_view(<<"memory_to_use", g>>, capacity, get_empty_key_sentinel,
              get_empty_value_sentinel)

\* g.sync(): a lane leaves it when every lane of its group has reached it
make_copy_sync(g, r) ==
  /\ r \in DOMAIN mc[g]
  /\ mc[g][r].pc = "sync"
  /\ \A q \in Lanes(copy_cg_size) : PcOrder[mc[g][q].pc] >= PcOrder["sync"]
  /\ mc' = IF CUDART_VERSION >= 11000
             THEN [mc EXCEPT ![g][r].pc = "memcpy_async"]
             ELSE [mc EXCEPT ![g][r].pc = "returned", ![g][r].ret = copy_view(g)]
  /\ UNCHANGED <<memory_to_use, barrier>>
  /\ CopyFrame

\* cuda::memcpy_async(g, memory_to_use, get_slots(), bytes, barrier): the
\* lane's part of the collective copy, the slots i with i % g.size() = r;
\* it is complete before the lane's arrival counts
make_copy_memcpy_async(g, r) ==
  /\ r \in DOMAIN mc[g]
  /\ mc[g][r].pc = "memcpy_async"
  /\ memory_to_use' = [memory_to_use EXCEPT ![g] =
        [i \in 0 .. capacity - 1 |->
           IF i % copy_cg_size = r THEN slots[i] ELSE @[i]]]
  /\ mc' = [mc EXCEPT ![g][r].pc = "arrive_and_wait"]
  /\ UNCHANGED barrier
  /\ CopyFrame

\* barrier.arrive_and_wait(), the arrival: the lane takes the token of the
\* current phase; the last expected arrival completes the phase
make_copy_arrive(g, r) ==
  /\ r \in DOMAIN mc[g]
  /\ mc[g][r].pc = "arrive_and_wait"
  /\ mc' = [mc EXCEPT ![g][r].pc = "wait", ![g][r].token = barrier.phase]
  /\ barrier' = IF barrier.pending = 1
                  THEN [barrier EXCEPT !.pending = barrier.expected,
                                       !.phase = barrier.phase + 1]
                  ELSE [barrier EXCEPT !.pending = barrier.pending - 1]
  /\ UNCHANGED memory_to_use
  /\ CopyFrame

\* barrier.arrive_and_wait(), the wait: until the phase of the token is
\* over; then return device_view(memory_to_use, capacity, sentinels)
make_copy_wait(g, r) ==
  /\ r \in DOMAIN mc[g]
  /\ mc[g][r].pc = "wait"
  /\ barrier.phase # mc[g][r].token
  /\ mc' = [mc EXCEPT ![g][r].pc = "returned", ![g][r].ret = copy_view(g)]
  /\ UNCHANGED <<memory_to_use, barrier>>
  /\ CopyFrame

\* for (i = g.thread_rank(); i < capacity; i += g.size()): one slot is
\* constructed in the buffer from the loaded key and value
make_copy_loop(g, r) ==
  /\ r \in DOMAIN mc[g]
  /\ mc[g][r].pc = "loop"
  /\ LET i == mc[g][r].i IN
       IF i < capacity
         THEN /\ memory_to_use' = [memory_to_use EXCEPT ![g][i] =
                   [first |-> slots[i].first, second |-> slots[i].second]]
              /\ mc' = [mc EXCEPT ![g][r].i = i + copy_cg_size]
         ELSE /\ mc' = [mc EXCEPT ![g][r].pc = "sync"]
              /\ UNCHANGED memory_to_use
  /\ UNCHANGED barrier
  /\ CopyFrame

\* the ranks a lane of a group can have
Ranks == UNION {Lanes(n) : n \in GroupSizes}

\* find(k) through a view whose slots are the array sl: the scan of find
RECURSIVE copy_find_from(_, _, _, _)
copy_find_from(sl, s, k, fuel) ==
  IF fuel = 0 THEN Diverges
  ELSE IF sl[s].first = get_empty_key_sentinel THEN end
  ELSE IF sl[s].first = k THEN s
  ELSE copy_find_from(sl, next_slot(s), k, fuel - 1)

copy_find(sl, k) == copy_find_from(sl, initial_slot(k), k, capacity)

CopyNext ==
  \/ /\ ncalls < MaxInsertsCopy
     /\ Copiers = {}
     /\ \E g \in Groups, k \in LiveKeys, v \in LiveVals, n \in GroupSizes :
          insert_cg_begin(g, k, v, n) /\ UNCHANGED bvars
  \/ \E g \in Groups : InsertStepCG(g)
  \/ \E g \in Groups : make_copy(g) /\ CopyFrame
  \/ \E g \in Groups, r \in Ranks : make_copy_init(g, r)
  \/ \E g \in Groups, r \in Ranks : make_copy_sync(g, r)
  \/ \E g \in Groups, r \in Ranks : make_copy_memcpy_async(g, r)
  \/ \E g \in Groups, r \in Ranks : make_copy_arrive(g, r)
  \/ \E g \in Groups, r \in Ranks : make_copy_wait(g, r)
  \/ \E g \in Groups, r \in Ranks : make_copy_loop(g, r)

CopySpec == CopyInit /\ [][CopyNext]_vars

----------------------------------------------------------------------------
(* The group next_slot on a storage of more than 2^32 slots.  Slot indices, *)
(* steps and capacities are std::size_t values; one of them is written     *)
(* here as its three 16-bit digits, least significant first, so that       *)
(* values beyond 2^32 are computed exactly.  The storage itself is not     *)
(* represented: only the position of the lanes of one group.               *)

Radix == 65536

MaxWideWindows == 3

\* the std::size_t value of a small number
Wide(n) == <<n % Radix, n \div Radix, 0>>

TwoTo32 == <<0, 0, 1>>

AddW(x, y) ==
  LET s0 == x[1] + y[1]
      s1 == x[2] + y[2] + (s0 \div Radix)
      s2 == x[3] + y[3] + (s1 \div Radix)
  IN  <<s0 % Radix, s1 % Radix, s2>>

LessW(x, y) ==
  \/ x[3] < y[3]
  \/ x[3] = y[3] /\ x[2] < y[2]
  \/ x[3] = y[3] /\ x[2] = y[2] /\ x[1] < y[1]

\* x - y, for y <= x
SubW(x, y) ==
  LET b0 == IF x[1] < y[1] THEN 1 ELSE 0
      d0 == x[1] + (b0 * Radix) - y[1]
      b1 == IF x[2] < y[2] + b0 THEN 1 ELSE 0
      d1 == x[2] + (b1 * Radix) - y[2] - b0
  IN  <<d0, d1, x[3] - y[3] - b1>>

\* x % c
RECURSIVE ModW(_, _)
ModW(x, c) == IF LessW(x, c) THEN x ELSE ModW(SubW(x, c), c)

\* uint32_t index = s - slots_; &slots_[(index + step_size_) % capacity_]:
\* the conversion to uint32_t keeps the two low digits of s
next_slot_cg_wide(s, step) == ModW(AddW(<<s[1], s[2], 0>>, step), capacity)

\* a group of n lanes is at a window of a storage of more than 2^32 slots,
\* with the step of its key.  The capacity is a whole number of windows
\* just above 2^32 slots; the window is one of the first of the storage,
\* one of the last below index 2^32 or one from index 2^32 on; the step is
\* a whole number of windows, below the capacity.
WideInit ==
  /\ \E n \in GroupSizes :
       /\ capacity \in {AddW(TwoTo32, Wide(2 * n * w)) : w \in 1 .. MaxWideWindows}
       /\ cg_size = [g \in Groups |-> IF g = 1 THEN n ELSE 0]
       /\ \E b \in {Wide(2 * n * w) : w \in 0 .. MaxWideWindows}
                   \cup {SubW(TwoTo32, Wide(2 * n * w)) : w \in 1 .. MaxWideWindows}
                   \cup {c \in {AddW(TwoTo32, Wide(2 * n * w)) :
                                   w \in 0 .. MaxWideWindows} :
                           LessW(c, capacity)} :
            current_slot = [g \in Groups |->
              IF g = 1 THEN [r \in Lanes(n) |-> AddW(b, Wide(2 * r))]
                       ELSE [r \in Lanes(0) |-> 0]]
       /\ \E step \in {Wide(2 * n * w) : w \in 1 .. MaxWideWindows} :
            step_size_ = [g \in Groups |-> IF g = 1 THEN step ELSE 0]
  /\ slots = <<>>
  /\ pc = [g \in Groups |-> IF g = 1 THEN "probing" ELSE "idle"]
  /\ insert_pair = [g \in Groups |-> NoPair]
  /\ insert_location = [g \in Groups |-> 0]
  /\ key_success = [g \in Groups |-> FALSE]
  /\ inserted = [p \in Keys \X Vals |-> 0]
  /\ ncalls = 0
  /\ lk = NoLookup
  /\ lane_exit = [g \in Groups |-> [r \in Lanes(0) |-> "none"]]
  /\ views = {}
  /\ NoBulkCall
  /\ NoHashCall
  /\ NoCopyCall

\* current_slot = next_slot(g, current_slot), in every lane of the group
next_slot_wide(g) ==
  /\ pc[g] = "probing"
  /\ current_slot' = [current_slot EXCEPT ![g] =
        [r \in Lanes(cg_size[g]) |->
           next_slot_cg_wide(current_slot[g][r], step_size_[g])]]
  /\ pc' = [pc EXCEPT ![g] = "advanced"]
  /\ UNCHANGED <<xvars, capacity, slots, insert_pair, cg_size, step_size_,
                 insert_location, key_success, inserted, ncalls, lk, lane_exit>>

WideSpec == WideInit /\ [][\E g \in Groups : next_slot_wide(g)]_vars

----------------------------------------------------------------------------
(* IdentityHash_32 / IdentityHash_64 on the bytes of a key.  A key is the  *)
(* sequence of its bytes in memory order (bytes[0] first, the least        *)
(* significant byte of an integer key); a hash value is the sequence of     *)
(* the bytes of the result, least significant first.                       *)

sizeof_uint32_t == 4

sizeof_uint64_t == 8

\* byte values the keys and seeds under test are made of
SampleBytes == {0, 255}

RECURSIVE BytesOfLen(_)
BytesOfLen(n) ==
  IF n = 0 THEN {<<>>}
  ELSE {<<b>> \o s : b \in SampleBytes, s \in BytesOfLen(n - 1)}

\* keys of 1 .. 8 bytes
HashKeys == UNION {BytesOfLen(n) : n \in 1 .. sizeof_uint64_t}

\* the seeds: 0 (the default) and one with bits set in every byte
Seeds(w) == {[i \in 1 .. w |-> 0], [i \in 1 .. w |-> IF i % 2 = 1 THEN 165 ELSE 1]}

RECURSIVE BitAnd(_, _)
BitAnd(a, b) ==
  IF a = 0 \/ b = 0 THEN 0
  ELSE ((a % 2) * (b % 2)) + 2 * BitAnd(a \div 2, b \div 2)

RECURSIVE Pow2(_)
Pow2(n) == IF n = 0 THEN 1 ELSE 2 * Pow2(n - 1)

\* an unsigned value below 256 as a result of w bytes
ToBytes(v, w) == [i \in 1 .. w |-> IF i = 1 THEN v ELSE 0]

\* h1 ^ seed_, byte by byte
XorBytes(h1, seed) == [i \in 1 .. Len(h1) |-> BitXor(h1[i], seed[i])]

\* load_chunk<T>(bytes, index): the index-th chunk of sizeof(T) = w bytes
load_chunk(bytes, index, w) == SubSeq(bytes, index * w + 1, index * w + w)

\* the mask of the narrow branch: mask = 1ull << shift / 2;
\* mask <<= shift / 2 + shift % 2  (shift <= 7, so nothing overflows)
narrow_mask(shift) ==
  Pow2(shift \div 2) * Pow2((shift \div 2) + (shift % 2))

\* mutant: the wide branch is taken only for keys wider than the result
compute_hash_32_wide_only_above(bytes, seed) ==
  LET size == Len(bytes)
      h1 == IF size > sizeof_uint32_t
              THEN load_chunk(bytes, size - sizeof_uint32_t, sizeof_uint32_t)
              ELSE ToBytes(BitAnd(bytes[1], narrow_mask(size)), sizeof_uint32_t)
  IN  XorBytes(h1, seed)

\* IdentityHash_32::compute_hash(bytes, size), with seed_ = seed
compute_hash_32(bytes, seed) ==
  LET size == Len(bytes)
      h1 == IF size >= sizeof_uint32_t
              THEN load_chunk(bytes, size - sizeof_uint32_t, sizeof_uint32_t)
              ELSE ToBytes(BitAnd(bytes[1], narrow_mask(size)), sizeof_uint32_t)
  IN  XorBytes(h1, seed)

\* IdentityHash_64::compute_hash(bytes, size), with seed_ = seed
compute_hash_64(bytes, seed) ==
  LET size == Len(bytes)
      h1 == IF size >= sizeof_uint64_t
              THEN load_chunk(bytes, 0, sizeof_uint64_t)
              ELSE ToBytes(BitAnd(bytes[1], narrow_mask(size - 1)), sizeof_uint64_t)
  IN  XorBytes(h1, seed)

\* a hash object is constructed with a seed and given a key
HashInit ==
  /\ Constructed
  /\ views = {}
  /\ NoBulkCall
  /\ NoCopyCall
  /\ hkey \in HashKeys
  /\ hseed \in Seeds(sizeof_uint32_t) \cup Seeds(sizeof_uint64_t)
  /\ hres = [width |-> 0, bytes |-> <<>>]

\* IdentityHash_32<Key>{seed}(key), for keys no wider than the result
hash_32 ==
  /\ Len(hseed) = sizeof_uint32_t
  /\ Len(hkey) <= sizeof_uint32_t
  /\ hres' = [width |-> sizeof_uint32_t, bytes |-> compute_hash_32(hkey, hseed)]
  /\ UNCHANGED <<capacity, slots, pc, wvars, inserted, ncalls, lk, views, bvars,
                 cvars, hkey, hseed>>

\* IdentityHash_64<Key>{seed}(key)
hash_64 ==
  /\ Len(hseed) = sizeof_uint64_t
  /\ hres' = [width |-> sizeof_uint64_t, bytes |-> compute_hash_64(hkey, hseed)]
  /\ UNCHANGED <<capacity, slots, pc, wvars, inserted, ncalls, lk, views, bvars,
                 cvars, hkey, hseed>>

HashNext == hash_32 \/ hash_64

HashSpec == HashInit /\ [][HashNext]_vars

----------------------------------------------------------------------------
(* The host bulk operations.  A call launches the groups of a kernel; each *)
(* group takes the next unconsumed element of [first, last) and applies    *)
(* the group operation to it; the call returns after every group has       *)
(* finished.  The group size is fixed when the map type is instantiated,   *)
(* so every bulk call of a run uses the same one.                          *)

MaxInputLen == 2

\* the ranges [first, last) of key/value pairs a bulk insert is given
InputPairs ==
  UNION {[1 .. len -> [first : Keys, second : Vals]] : len \in 0 .. MaxInputLen}

\* the ranges [first, last) of keys a bulk lookup is given
InputKeys == UNION {[1 .. len -> Keys] : len \in 0 .. MaxInputLen}

\* the length of the output storage the caller provides at output_begin
OutputLen(op) ==
  CASE op \in {"find", "contains"} -> MaxInputLen
    [] op = "find_all" -> MaxInputLen * MaxInputLen
    [] OTHER -> 0

\* *(output_begin + p - 1) = v: every write to a position is recorded
Write(out, p, v) == [out EXCEPT ![p] = Append(@, v)]

\* the start of every bulk call: the previous call has returned
bulk_call(op, first_last, n) ==
  /\ bulk.done
  /\ Quiescent
  /\ ValidGroup(n)
  /\ bulk.op = "none" \/ n = bulk.n
  /\ bulk' = [op |-> op, n |-> n, done |-> FALSE]
  /\ input' = first_last
  /\ cursor' = 0
  /\ output' = [p \in 1 .. OutputLen(op) |-> <<>>]
  /\ work' = [g \in Groups |-> 0]
  /\ total' = 0
  /\ UNCHANGED <<hvars, cvars, views, capacity, slots, pc, wvars, inserted, ncalls, lk>>

\* insert(first, last): the capacity contract covers the whole range
bulk_insert(first_last, n) ==
  /\ ncalls = 0
  /\ Len(first_last) <= capacity
  /\ bulk_call("insert", first_last, n)

\* mutant: the group takes an element without consuming it
insert_kernel_no_advance(g) ==
  /\ bulk.op = "insert"
  /\ ~bulk.done
  /\ cursor < Len(input)
  /\ insert_cg_begin(g, input[cursor + 1].first, input[cursor + 1].second, bulk.n)
  /\ cursor' = IF g = 1 THEN cursor + 1 ELSE cursor
  /\ UNCHANGED <<bulk, input, output, work, total>>

\* a group takes the next unconsumed pair and calls insert(g, pair)
insert_kernel(g) ==
  /\ bulk.op = "insert"
  /\ ~bulk.done
  /\ cursor < Len(input)
  /\ insert_cg_begin(g, input[cursor + 1].first, input[cursor + 1].second, bulk.n)
  /\ cursor' = cursor + 1
  /\ UNCHANGED <<bulk, input, output, work, total>>

bulk_find(first_last, n) == bulk_call("find", first_last, n)

bulk_contains(first_last, n) == bulk_call("contains", first_last, n)

bulk_find_all(first_last, n) == bulk_call("find_all", first_last, n)

bulk_count(first_last, n) == bulk_call("count", first_last, n)

\* a group of a lookup kernel takes the next unconsumed key
kernel_take(g) ==
  /\ bulk.op \in {"find", "contains", "find_all", "count"}
  /\ ~bulk.done
  /\ work[g] = 0
  /\ IF g = 1 THEN TRUE ELSE work[g - 1] # 0
  /\ cursor < Len(input)
  /\ work' = [work EXCEPT ![g] = cursor + 1]
  /\ cursor' = cursor + 1
  /\ UNCHANGED <<bulk, input, output, total>>
  /\ UNCHANGED <<hvars, cvars, views, capacity, slots, pc, wvars, inserted, ncalls, lk>>

\* the group is done with its key
kernel_done(g) ==
  /\ work' = [work EXCEPT ![g] = 0]
  /\ UNCHANGED <<bulk, input, cursor>>
  /\ UNCHANGED <<hvars, cvars, views, capacity, slots, pc, wvars, inserted, ncalls, lk>>

\* the output position of the key at input position i: output_begin + i
find_output_position(i) == i

\* find: the value found for the key, or the empty value sentinel
find_kernel(g) ==
  LET i == work[g]
      found == find_cg(bulk.n, input[i])
  IN  /\ bulk.op = "find"
      /\ i # 0
      /\ found # Diverges
      /\ output' = Write(output, find_output_position(i),
                         IF found = end THEN get_empty_value_sentinel
                         ELSE slots[found].second)
      /\ total' = total
      /\ kernel_done(g)

\* contains: whether the key was found
contains_kernel(g) ==
  LET i == work[g]
      found == find_cg(bulk.n, input[i])
  IN  /\ bulk.op = "contains"
      /\ i # 0
      /\ found # Diverges
      /\ output' = Write(output, find_output_position(i), found # end)
      /\ total' = total
      /\ kernel_done(g)

\* mutant: a group overwrites the shared counter with its own count
reduce_last_only(acc, c) == c

\* the reduction of the counts of the groups into the shared counter
reduce(acc, c) == acc + c

\* count: the occurrences of the key are added to the shared counter
count_kernel(g) ==
  LET i == work[g]
      c == count_cg(bulk.n, input[i])
  IN  /\ bulk.op = "count"
      /\ i # 0
      /\ c # Diverges
      /\ total' = reduce(total, c)
      /\ output' = output
      /\ kernel_done(g)

\* the slots of the group scan of find_all that hold key k: every lane that
\* finds a match records it, over the whole scan ({Diverges}: no return)
RECURSIVE matches_cg_from(_, _, _, _, _)
matches_cg_from(n, base, k, fuel, acc) ==
  LET exists == {s \in LaneSlots(n, base) : slots[s].first = k}
      empties == {s \in LaneSlots(n, base) : slots[s].first = get_empty_key_sentinel}
  IN  IF fuel = 0 THEN {Diverges}
      ELSE IF empties # {} THEN acc \cup exists
      ELSE matches_cg_from(n, next_slot_cg(base, step_size(n, k)), k, fuel - 1,
                           acc \cup exists)

matches_cg(n, k) ==
  matches_cg_from(n, initial_slot_cg(n, 0, k), k, capacity \div (2 * n), {})

\* a set of slots as a sequence, lowest slot first
RECURSIVE InSlotOrder(_)
InSlotOrder(S) ==
  IF S = {} THEN <<>> ELSE <<Lowest(S)>> \o InSlotOrder(S \ {Lowest(S)})

\* mutant: nothing is copied for a key without a match
find_all_pairs_matches_only(k, m) ==
  [j \in 1 .. Cardinality(m) |-> slots[InSlotOrder(m)[j]]]

\* the pairs find_all copies for key k with matching slots m: k with every
\* associated value, else k and the empty value sentinel
find_all_pairs(k, m) ==
  IF m = {} THEN <<[first |-> k, second |-> get_empty_value_sentinel]>>
  ELSE [j \in 1 .. Cardinality(m) |-> slots[InSlotOrder(m)[j]]]

\* the output after the pairs ps are written from position p on
RECURSIVE WriteAll(_, _, _)
WriteAll(out, p, ps) ==
  IF ps = <<>> THEN out
  ELSE WriteAll(Write(out, p, Head(ps)), p + 1, Tail(ps))

\* find_all: the group reserves as many output positions as it has pairs by
\* an addition to the shared counter, and copies its pairs there
find_all_kernel(g) ==
  LET i == work[g]
      m == matches_cg(bulk.n, input[i])
      ps == find_all_pairs(input[i], m)
  IN  /\ bulk.op = "find_all"
      /\ i # 0
      /\ m # {Diverges}
      /\ total + Len(ps) <= Len(output)
      /\ output' = WriteAll(output, total + 1, ps)
      /\ total' = total + Len(ps)
      /\ kernel_done(g)

\* the call returns: the range is consumed and every group has finished
bulk_return ==
  /\ ~bulk.done
  /\ cursor = Len(input)
  /\ Quiescent
  /\ \A g \in Groups : work[g] = 0
  /\ bulk' = [bulk EXCEPT !.done = TRUE]
  /\ UNCHANGED <<input, cursor, output, work, total>>
  /\ UNCHANGED <<hvars, cvars, views, capacity, slots, pc, wvars, inserted, ncalls, lk>>

BulkNext ==
  \/ \E first_last \in InputPairs, n \in GroupSizes : bulk_insert(first_last, n)
  \/ \E g \in Groups : insert_kernel(g)
  \/ \E g \in Groups : InsertStepCG(g)
  \/ \E first_last \in InputKeys, n \in GroupSizes : bulk_find(first_last, n)
  \/ \E first_last \in InputKeys, n \in GroupSizes : bulk_contains(first_last, n)
  \/ \E first_last \in InputKeys, n \in GroupSizes : bulk_find_all(first_last, n)
  \/ \E first_last \in InputKeys, n \in GroupSizes : bulk_count(first_last, n)
  \/ \E g \in Groups : kernel_take(g)
  \/ \E g \in Groups : find_kernel(g)
  \/ \E g \in Groups : contains_kernel(g)
  \/ \E g \in Groups : find_all_kernel(g)
  \/ \E g \in Groups : count_kernel(g)
  \/ bulk_return

BulkSpec == Init /\ [][BulkNext]_vars

----------------------------------------------------------------------------
(* What the claims speak of *)

Occupied == {s \in Slots : slots[s].first # empty_key_sentinel}

Stored(k, v) == {s \in Slots : slots[s].first = k /\ slots[s].second = v}

RECURSIVE SumInserted(_, _)
SumInserted(k, v) ==
  IF v = 0 THEN 0 ELSE inserted[<<k, v>>] + SumInserted(k, v - 1)

\* the number of insert calls made with key k
KeyCalls(k) == SumInserted(k, MaxVal)

ValidGroups == {n \in GroupSizes : ValidGroup(n)}

\* the pairs an iteration yields from its first result
YieldedPairs(first, k) ==
  LET y == Yielded(first, k, capacity + 1)
  IN  {slots[y[i]] : i \in 1 .. Len(y)}

\* a find result that is a slot of key k holding a value inserted with k
FoundAt(s, k) ==
  /\ s \in Slots
  /\ slots[s].first = k
  /\ slots[s].second \in Vals
  /\ inserted[<<k, slots[s].second>>] > 0

\* the lookup a record of lk stands for, made again on the current slots
Replay(r) ==
  CASE r.op = "find" -> IF r.n = 0 THEN find(r.key) ELSE find_cg(r.n, r.key)
    [] r.op = "contains" ->
         IF r.n = 0 THEN contains(r.key) ELSE contains_cg(r.n, r.key)
    [] r.op = "count" -> IF r.n = 0 THEN count(r.key) ELSE count_cg(r.n, r.key)
    [] r.op = "find_all" ->
         IF r.n = 0 THEN find_all(r.key) ELSE find_all_cg(r.n, r.key)
    [] r.op = "increment" -> increment(r.from, r.key)

\* the slot keys the lookup of record r compared with its search key
Compared(r) ==
  CASE r.op = "none" -> {}
    [] r.op = "increment" -> increment_compared(r.from, r.key)
    [] r.op \in {"find", "contains", "find_all", "count"} ->
         IF r.n = 0
           THEN scan_compared(initial_slot(r.key), r.key, capacity, r.op # "count")
           ELSE scan_cg_compared(r.n, initial_slot_cg(r.n, 0, r.key), r.key,
                                 capacity \div (2 * r.n), r.op # "count")

\* a step made by a lookup: no insert is in flight before or after it and no
\* insert call starts
LookupStep == Quiescent /\ Quiescent' /\ ncalls' = ncalls

----------------------------------------------------------------------------
C2_InsertedPairIsYielded ==
  Quiescent =>
    \A k \in Keys, v \in Vals :
      inserted[<<k, v>>] > 0 =>
        [first |-> k, second |-> v] \in YieldedPairs(find_all(k), k)

(* C3: with no insert in flight, count(k) is the number of times k was     *)
(* inserted, for every key k.                                              *)
C3_CountIsTimesInserted ==
  Quiescent => \A k \in Keys : count(k) = KeyCalls(k)

(* C4: with no insert in flight and an empty slot left, a key that was     *)
(* never inserted is reported absent by every single-lane lookup: find is  *)
(* end, contains is false, find_all yields nothing and count is 0.         *)
C4_AbsentKeyNotFound ==
  (Quiescent /\ Occupied # Slots) =>
    \A k \in Keys :
      KeyCalls(k) = 0 =>
        /\ find(k) = end
        /\ ~contains(k)
        /\ Yielded(find_all(k), k, capacity + 1) = <<>>
        /\ count(k) = 0

C4_Witness ==
  /\ Quiescent
  /\ ncalls >= 2
  /\ lk.op = "find"
  /\ lk.n = 0
  /\ KeyCalls(lk.key) = 0
  /\ lk.res = end
  /\ slots[initial_slot(lk.key)].first # empty_key_sentinel

(* C5: with no insert in flight, every inserted key k is found: contains   *)
(* is true and find returns a slot of key k holding a value inserted with  *)
(* k, by the single-lane lookup and by the group lookup of every size.     *)
C5_InsertedKeyIsFound ==
  Quiescent =>
    \A k \in Keys :
      KeyCalls(k) > 0 =>
        /\ FoundAt(find(k), k)
        /\ contains(k)
        /\ \A n \in ValidGroups : FoundAt(find_cg(n, k), k) /\ contains_cg(n, k)

(* C6: on one table, the lookups of a key give the same results whatever   *)
(* the size of the group that makes them: contains, the presence and the   *)
(* key of find, count, and the pairs find_all yields.                      *)
C6_SameResultsForEveryGroupSize ==
  Quiescent =>
    \A k \in Keys, n1 \in ValidGroups, n2 \in ValidGroups :
      /\ contains_cg(n1, k) = contains_cg(n2, k)
      /\ (find_cg(n1, k) \in Slots) = (find_cg(n2, k) \in Slots)
      /\ count_cg(n1, k) = count_cg(n2, k)
      /\ YieldedPairs(find_all_cg(n1, k), k) = YieldedPairs(find_all_cg(n2, k), k)

(* C7: under fair scheduling every insert call eventually returns, the     *)
(* number of pairs inserted never exceeding capacity.                      *)
C7_InsertReturns ==
  \A g \in Groups : (pc[g] # "idle") ~> (pc[g] = "idle")

(* C8: slot keys are write-once: a slot whose key is not the empty         *)
(* sentinel keeps that key in every step, so the number of occupied slots  *)
(* never decreases.                                                        *)
C8_KeysWriteOnce ==
  [][/\ \A s \in Slots :
          slots[s].first # empty_key_sentinel => slots'[s].first = slots[s].first
     /\ Cardinality(Occupied') >= Cardinality(Occupied)]_vars

C8_Witness ==
  \E g \in Groups :
    /\ pc[g] = "value_cas"
    /\ ~key_success[g]
    /\ slots[insert_location[g]].first # insert_pair[g].first

(* C9: after construction and before any insert, every slot holds the      *)
(* sentinel pair, and for every key contains is false and count is 0.      *)
C9_EmptyAfterConstruction ==
  ncalls = 0 =>
    /\ \A s \in Slots : slots[s] = EmptySlot
    /\ \A k \in Keys : ~contains(k) /\ count(k) = 0

C9_Witness ==
  /\ ncalls = 0
  /\ lk.op = "count"
  /\ lk.res = 0

C20_LanesDecideTogether ==
  [][\A g \in Groups :
       /\ \A r1 \in DOMAIN lane_exit'[g], r2 \in DOMAIN lane_exit'[g] :
            lane_exit'[g][r1] = lane_exit'[g][r2]
       /\ cg_size'[g] > 0 =>
            \A r \in Lanes(cg_size'[g]) :
              current_slot'[g][r] = current_slot'[g][0] + 2 * r
       /\ (cg_size[g] > 0 /\ pc[g] # "idle" /\ pc'[g] = "idle") =>
            \A r \in Lanes(cg_size[g]) : any_success(g, r, key_success[g])]_vars

C20_Witness ==
  \E g \in Groups :
    /\ cg_size[g] = 2
    /\ pc[g] = "key_cas"
    /\ ~(first_slot_is_empty(g, 0) \/ second_slot_is_empty(g, 0))
    /\ lane_exit[g][0] = "window"
    /\ lane_exit[g][1] = "window"

(* C17: no lookup compares its search key with a slot key that is the      *)
(* empty-key sentinel: the sentinel test comes first in every probe step.  *)
(* (The group insert tests slot keys against the sentinel only and makes   *)
(* no comparison with the inserted key.)                                   *)
C17_NoComparisonWithSentinel ==
  get_empty_key_sentinel \notin Compared(lk)

\* the key zero-extended to w bytes
ZeroExtend(bytes, w) == [i \in 1 .. w |-> IF i <= Len(bytes) THEN bytes[i] ELSE 0]

ZeroSeed(w) == [i \in 1 .. w |-> 0]

(* C18: for a key as wide as the result (4 bytes with IdentityHash_32, 8   *)
(* bytes with IdentityHash_64) the hash is the key's bytes XOR the seed's: *)
(* the key itself when the seed is 0, and distinct keys get distinct       *)
(* hashes under one seed.                                                  *)
C18_IdentityOnFullWidthKeys ==
  /\ (hres.width # 0 /\ Len(hkey) = hres.width) =>
       /\ hres.bytes = XorBytes(hkey, hseed)
       /\ hseed = ZeroSeed(hres.width) => hres.bytes = hkey
  /\ (hres.width = sizeof_uint32_t /\ Len(hkey) = hres.width) =>
       \A k2 \in BytesOfLen(sizeof_uint32_t) :
         k2 # hkey => compute_hash_32(k2, hseed) # hres.bytes
  /\ (hres.width = sizeof_uint64_t /\ Len(hkey) = hres.width) =>
       \A k2 \in BytesOfLen(sizeof_uint64_t) :
         k2 # hkey => compute_hash_64(k2, hseed) # hres.bytes

C18_Witness ==
  /\ hres.width = sizeof_uint32_t
  /\ Len(hkey) = sizeof_uint32_t
  /\ hseed # ZeroSeed(sizeof_uint32_t)
  /\ hres.bytes # hkey

(* C19: for a key narrower than the result and seed 0 the hash is the      *)
(* key's bytes zero-extended to the result width.                          *)
C19_ZeroExtendsNarrowKeys ==
  (hres.width # 0 /\ Len(hkey) < hres.width /\ hseed = ZeroSeed(hres.width)) =>
    hres.bytes = ZeroExtend(hkey, hres.width)

(* C16: every view handed out refers to the slots, capacity and sentinels  *)
(* of the container; handing out a view changes neither the storage nor    *)
(* the capacity; and once the inserts made through a mutable view have     *)
(* returned, every inserted key is found by find through a read view.      *)
C16_ViewsShareTheStorage ==
  [][/\ views' # views => (slots' = slots /\ capacity' = capacity)
     /\ \A w \in views' :
          w.base = device_view_base(slots_, capacity', empty_key_sentinel,
                                    empty_value_sentinel)
     /\ (Quiescent' /\ \E w \in views' : w.kind = "device_view") =>
          \A k \in Keys : KeyCalls(k)' > 0 => FoundAt(find(k), k)']_vars

----------------------------------------------------------------------------
(* What the bulk claims speak of *)

\* the number of positions of the range seq that hold x
RECURSIVE Occurrences(_, _)
Occurrences(seq, x) ==
  IF seq = <<>> THEN 0
  ELSE (IF Head(seq) = x THEN 1 ELSE 0) + Occurrences(Tail(seq), x)

\* the bulk call `op` has returned and no other bulk call was made since
Returned(op) == bulk.op = op /\ bulk.done

\* the part of the input range already handed to the groups
Consumed == SubSeq(input, 1, cursor)

----------------------------------------------------------------------------
Present(k) == \E s \in Slots : slots[s].first = k

\* the values stored with key k
ValuesOf(k) == {slots[s].second : s \in {q \in Slots : slots[q].first = k}}

----------------------------------------------------------------------------
(* C12: when a bulk find or contains has returned, the output position of   *)
(* every input key has been written exactly once and every other position  *)
(* not at all; position i holds, for find, a value stored with key i if    *)
(* the key is present and the empty value sentinel if not, and for         *)
(* contains, whether key i is present.                                     *)
C12_BulkFindContainsOnePerKey ==
  /\ Returned("find") =>
       \A p \in DOMAIN output :
         IF p <= Len(input)
           THEN /\ Len(output[p]) = 1
                /\ IF Present(input[p])
                     THEN output[p][1] \in ValuesOf(input[p])
                     ELSE output[p][1] = get_empty_value_sentinel
           ELSE output[p] = <<>>
  /\ Returned("contains") =>
       \A p \in DOMAIN output :
         IF p <= Len(input)
           THEN output[p] = <<Present(input[p])>>
           ELSE output[p] = <<>>

\* the sum of the single-key counts count(g, k) over the positions of seq
RECURSIVE SumOfCounts(_, _)
SumOfCounts(n, seq) ==
  IF seq = <<>> THEN 0 ELSE count_cg(n, Head(seq)) + SumOfCounts(n, Tail(seq))

----------------------------------------------------------------------------
(* C15: when a bulk count has returned, its result is the sum over the     *)
(* positions of the input range of the single-key count of the key there,  *)
(* a key that occurs twice in the range counted twice, whichever group     *)
(* took which position and in whatever order the groups added up.          *)
C15_BulkCountIsSumOfCounts ==
  Returned("count") => total = SumOfCounts(bulk.n, input)

\* a bulk count of a range that holds a stored key twice has returned
C15_Witness ==
  /\ Returned("count")
  /\ Len(input) = MaxInputLen
  /\ input[1] = input[MaxInputLen]
  /\ count_cg(bulk.n, input[1]) > 0
  /\ total >= MaxInputLen

\* the output positions that hold exactly the pair x
PositionsOf(x) == {p \in DOMAIN output : output[p] = <<x>>}

\* the pair find_all copies for a key without a match
SentinelPair(k) == [first |-> k, second |-> get_empty_value_sentinel]

----------------------------------------------------------------------------
----------------------------------------------------------------------------
(* C13: when a bulk find_all has returned, the output holds every pair     *)
(* stored with an input key once for every position of the range that      *)
(* holds the key, no output position has been written twice, the written   *)
(* positions are the first `total` ones, where output_begin + total is the *)
(* iterator returned, and total is the result of bulk count on the range.  *)
C13_BulkFindAllWritesStoredPairs ==
  Returned("find_all") =>
    /\ \A i \in 1 .. Len(input), v \in Vals :
         Cardinality(PositionsOf([first |-> input[i], second |-> v])) =
           Cardinality(Stored(input[i], v)) * Occurrences(input, input[i])
    /\ \A p \in DOMAIN output : Len(output[p]) = (IF p <= total THEN 1 ELSE 0)
    /\ total = SumOfCounts(bulk.n, input)

----------------------------------------------------------------------------
(* What the claims on the steps of the group insert speak of *)

\* the group g is inside a call of insert(g, pair)
InGroupInsert(g) == cg_size[g] > 0 /\ pc[g] # "idle"

\* the slots a step changes
Written == {s \in Slots : slots'[s] # slots[s]}

\* the two slots of the sub-window the lane of rank r of group g has loaded
SubWindow(g, r) == {current_slot[g][r], current_slot[g][r] + 1}

\* the ranks of the lanes of g whose sub-window holds an empty key
LanesWithEmpty(g) ==
  {r \in Lanes(cg_size[g]) :
     \E s \in SubWindow(g, r) : slots[s].first = empty_key_sentinel}

----------------------------------------------------------------------------
(* C21: in an iteration of the group insert in which the window holds an   *)
(* empty key, the slot targeted is the first slot of the lowest-ranked     *)
(* lane whose sub-window holds an empty key if that slot is empty, and its *)
(* second slot otherwise; every write of the group in that iteration goes  *)
(* to this one slot, which lies in the sub-window of one lane only.        *)
C21_OneLaneWritesPerIteration ==
  [][\A g \in Groups :
       (InGroupInsert(g) /\ pc'[g] # pc[g]) =>
         /\ pc[g] = "load" =>
              LET r == Lowest(LanesWithEmpty(g))
              IN  insert_location'[g] =
                    IF slots[current_slot[g][r]].first = empty_key_sentinel
                      THEN current_slot[g][r]
                      ELSE current_slot[g][r] + 1
         /\ pc[g] # "load" =>
              /\ Written \subseteq {insert_location[g]}
              /\ Cardinality({r \in Lanes(cg_size[g]) :
                                insert_location[g] \in SubWindow(g, r)}) = 1]_vars

\* a group of two lanes whose lane 0 had no empty slot: lane 1 has won the
\* key of its first slot
C21_Witness ==
  \E g \in Groups :
    /\ cg_size[g] = 2
    /\ pc[g] = "value_cas"
    /\ key_success[g]
    /\ insert_location[g] = current_slot[g][1]

----------------------------------------------------------------------------
(* C22: a group inside insert moves its lanes only at the head of an       *)
(* iteration in which no lane holds an empty key in its sub-window, and    *)
(* then to the next window of the probe sequence; in an iteration in which *)
(* a lane holds one, and after a lost key compare-exchange, the lanes stay *)
(* on the window and the group reads it again.                             *)
C22_AdvanceOnlyFromFullWindow ==
  [][\A g \in Groups :
       (InGroupInsert(g) /\ pc'[g] # "idle") =>
         /\ current_slot'[g] # current_slot[g] =>
              /\ pc[g] = "load"
              /\ LanesWithEmpty(g) = {}
              /\ \A r \in Lanes(cg_size[g]) :
                   current_slot'[g][r] =
                     next_slot_cg(current_slot[g][r], step_size_[g])
         /\ (pc[g] = "load" /\ LanesWithEmpty(g) # {}) =>
              current_slot'[g] = current_slot[g]
         /\ (pc[g] \in {"value_cas", "rollback"} /\ ~key_success[g]
               /\ pc'[g] # pc[g]) =>
              /\ pc'[g] \in {"rollback", "load"}
              /\ current_slot'[g] = current_slot[g]]_vars

\* a group has lost the key compare-exchange and is back at the head of the
\* loop on the same window, which still holds an empty slot
C22_Witness ==
  \E g \in Groups :
    /\ InGroupInsert(g)
    /\ pc[g] = "load"
    /\ lane_exit[g][0] = "retry"
    /\ LanesWithEmpty(g) # {}
    /\ slots[insert_location[g]].first # insert_pair[g].first

\* the slots of the window of 2n slots that starts at base
WindowSlots(n, base) == base .. base + 2 * n - 1

\* the first slot of the window of 2n slots that holds slot s
WindowOf(n, s) == (s \div (2 * n)) * (2 * n)

\* the windows the group probe sequence of key k visits, from the window at
\* base on, before it first comes to the window at target
RECURSIVE WindowsBefore(_, _, _, _, _)
WindowsBefore(n, k, base, target, fuel) ==
  IF base = target \/ fuel = 0 THEN {}
  ELSE {base} \cup
       WindowsBefore(n, k, next_slot_cg(base, step_size(n, k)), target, fuel - 1)

\* the slots a group of n lanes probing for key k passes before slot s: the
\* slots of the windows before the window of s, and the slots before s in it
ProbedBefore(n, k, s) ==
  UNION {WindowSlots(n, b) :
           b \in WindowsBefore(n, k, initial_slot_cg(n, 0, k), WindowOf(n, s),
                               capacity \div (2 * n))}
    \cup {q \in WindowSlots(n, WindowOf(n, s)) : q < s}

\* the slots the single-lane probe sequence of key k passes, from slot q on,
\* before slot s
RECURSIVE LinearBefore(_, _, _)
LinearBefore(q, s, fuel) ==
  IF q = s \/ fuel = 0 THEN {} ELSE {q} \cup LinearBefore(next_slot(q), s, fuel - 1)

\* group g has won the key of insert_location and has not returned yet
WonKey(g) ==
  InGroupInsert(g) /\ pc[g] \in {"value_cas", "value_loop"} /\ key_success[g]

----------------------------------------------------------------------------
(* C23: in every state, a slot whose key a group insert of key k has just  *)
(* won has only occupied slots before it on k's probe sequence: the slots  *)
(* of every window the sequence visits before the slot's window, and the   *)
(* slots before it in its own window; the windows a group in insert has    *)
(* left are full; and every occupied slot has only occupied slots before   *)
(* it on the probe sequence of its key for the size of group (or the       *)
(* single lane) that claimed it.                                           *)
C23_ProbeSequenceReachesClaimedSlot ==
  /\ \A g \in Groups :
       WonKey(g) =>
         ProbedBefore(cg_size[g], insert_pair[g].first, insert_location[g])
           \subseteq Occupied
  /\ \A g \in Groups :
       InGroupInsert(g) =>
         ProbedBefore(cg_size[g], insert_pair[g].first, current_slot[g][0])
           \subseteq Occupied
  /\ \A s \in Occupied :
       \/ \E n \in ValidGroups : ProbedBefore(n, slots[s].first, s) \subseteq Occupied
       \/ LinearBefore(initial_slot(slots[s].first), s, capacity) \subseteq Occupied

\* a group has left the full first window of its key and won a slot of the
\* window it came to
C23_Witness ==
  \E g \in Groups :
    /\ WonKey(g)
    /\ WindowOf(cg_size[g], insert_location[g]) #
         initial_slot_cg(cg_size[g], 0, insert_pair[g].first)
    /\ Cardinality(ProbedBefore(cg_size[g], insert_pair[g].first,
                                insert_location[g])) >= 2

\* the inserts in flight that have won the key of slot s and have not yet
\* written its value
Winners(s) ==
  {g \in Groups :
     \/ WonKey(g) /\ insert_location[g] = s
     \/ pc[g] = "s_value_cas" /\ current_slot[g][0] = s}

----------------------------------------------------------------------------
(* C24: in every state, inserts in flight included, a slot is empty with   *)
(* the empty value, or holds the key of the insert that won its key        *)
(* compare-exchange with the empty value sentinel, or holds that key with  *)
(* the value of that insert: while the winner has not written its value    *)
(* the value field is the sentinel, and afterwards it is a value inserted  *)
(* with the key.                                                           *)
C24_SlotHoldsOnlyItsWinnersValue ==
  \A s \in Slots :
    IF slots[s].first = empty_key_sentinel
      THEN slots[s].second = empty_value_sentinel
      ELSE IF Winners(s) # {}
        THEN slots[s].second = empty_value_sentinel
        ELSE /\ slots[s].second \in Vals
             /\ inserted[<<slots[s].first, slots[s].second>>] > 0

\* the groups about to store the empty value sentinel back into slot s
RollingBack(s) == {g \in Groups : pc[g] = "rollback" /\ insert_location[g] = s}

----------------------------------------------------------------------------
(* C26: whenever a lane that lost the key of a slot is about to store the  *)
(* empty value sentinel into it, the value field still holds the value     *)
(* this lane wrote, the insert that owns the key of the slot has not yet   *)
(* written its value, and no other lane is about to store into the slot:   *)
(* the store replaces the lane's own value and nothing else.               *)
C26_RollbackReplacesOwnValueOnly ==
  \A g \in Groups :
    pc[g] = "rollback" =>
      /\ ~key_success[g]
      /\ slots[insert_location[g]].second = insert_pair[g].second
      /\ Winners(insert_location[g]) # {}
      /\ RollingBack(insert_location[g]) = {g}

\* three inserts race for one slot: one owns its key and waits for the value
\* field, one is about to store the sentinel back, a third has lost the key
C26_Witness ==
  \E w \in Groups, g \in Groups, h \in Groups :
    /\ pc[g] = "rollback"
    /\ pc[w] = "value_loop"
    /\ insert_location[w] = insert_location[g]
    /\ pc[h] = "value_cas"
    /\ ~key_success[h]
    /\ insert_location[h] = insert_location[g]
    /\ insert_pair[w].second # insert_pair[g].second

----------------------------------------------------------------------------
(* C25: when every group inside insert keeps taking steps, a group that    *)
(* has won the key of a slot eventually writes its value there and         *)
(* returns, whatever other inserts lost the key of that slot and whether   *)
(* or not one of them put its value into the slot first.                   *)
C25_WinnerWritesItsValue ==
  \A g \in Groups : WonKey(g) ~> (pc[g] = "idle")

\* an insert owns the key of a slot whose value field another insert, which
\* lost the key, has filled
C25_Witness ==
  \E w \in Groups, g \in Groups :
    /\ WonKey(w)
    /\ pc[g] = "rollback"
    /\ insert_location[g] = insert_location[w]
    /\ slots[insert_location[w]].second # empty_value_sentinel

----------------------------------------------------------------------------
(* C27: in every state, inserts in flight included, a slot whose value is  *)
(* not the empty value sentinel has a key that is not the empty key        *)
(* sentinel.                                                               *)
C27_ValueOnlyInOccupiedSlot ==
  \A s \in Slots :
    slots[s].second # empty_value_sentinel => slots[s].first # empty_key_sentinel

\* a value is in a slot while inserts are in flight, put there by an insert
\* that lost the key, before the owner of the key has written its own
C27_Witness ==
  \E s \in Slots :
    /\ slots[s].second # empty_value_sentinel
    /\ Winners(s) # {}
    /\ RollingBack(s) # {}

----------------------------------------------------------------------------
----------------------------------------------------------------------------
(* C29: while a group of G lanes is inside insert on a capacity that is a  *)
(* multiple of 2G, there is one window number w, 0 <= w < capacity/2G,     *)
(* such that the lane of every rank r is at slot index w*2G + 2r; the      *)
(* pairs of slots of two lanes have no slot in common, together they are   *)
(* the 2G slots of window w, and every slot of every pair is a slot of the *)
(* storage.                                                                *)
C29_LanesTileOneWindow ==
  \A g \in Groups :
    (InGroupInsert(g) /\ capacity % (2 * cg_size[g]) = 0) =>
      LET n == cg_size[g] IN
        /\ \E w \in 0 .. (capacity \div (2 * n)) - 1 :
             /\ \A r \in Lanes(n) : current_slot[g][r] = (w * 2 * n) + (2 * r)
             /\ UNION {SubWindow(g, r) : r \in Lanes(n)}
                  = (w * 2 * n) .. ((w * 2 * n) + (2 * n) - 1)
        /\ \A r \in Lanes(n), q \in Lanes(n) :
             r # q => SubWindow(g, r) \cap SubWindow(g, q) = {}
        /\ \A r \in Lanes(n) : SubWindow(g, r) \subseteq Slots

\* a group of two lanes has stepped from a full window to another window
\* of a capacity its windows divide
C29_Witness ==
  \E g \in Groups :
    /\ InGroupInsert(g)
    /\ cg_size[g] = 2
    /\ capacity % (2 * cg_size[g]) = 0
    /\ pc[g] = "load"
    /\ \A r \in Lanes(cg_size[g]) : lane_exit[g][r] = "advance"
    /\ current_slot[g][0] # initial_slot_cg(2, 0, insert_pair[g].first)

----------------------------------------------------------------------------
(* C30: while a group of G lanes is inside insert on a capacity of at      *)
(* least 2G slots, a multiple of 2G or not, the divisor capacity/2G - 1 of *)
(* the step is not zero, and both slots of the pair every lane holds, at   *)
(* the initial window and after any number of steps, are slots of the      *)
(* storage; so is the slot the group writes.                               *)
C30_ProbeDefinedOnAnyCapacity ==
  \A g \in Groups :
    InGroupInsert(g) =>
      /\ StepDivisor(cg_size[g]) # 0
      /\ \A r \in Lanes(cg_size[g]) : SubWindow(g, r) \subseteq Slots
      /\ pc[g] \in {"key_cas", "value_cas", "value_loop", "rollback"} =>
           insert_location[g] \in Slots

\* a group on a capacity with at least two windows, where the step is
\* defined, holds a pair of slots whose second slot is past the last slot
C30_OutOfRange ==
  \E g \in Groups :
    /\ InGroupInsert(g)
    /\ StepDivisor(cg_size[g]) # 0
    /\ \E r \in Lanes(cg_size[g]) : current_slot[g][r] + 1 = capacity

----------------------------------------------------------------------------
(* What the claims on the probe sequences speak of *)

\* the first slots of the windows a group of n lanes inspects for a key:
\* the window of lane 0 at `base`, then `fuel - 1` applications of the
\* group next_slot
RECURSIVE WindowBases(_, _, _, _)
WindowBases(n, base, k, fuel) ==
  IF fuel = 0 THEN {}
  ELSE {base} \cup
       WindowBases(n, next_slot_cg(base, step_size(n, k)), k, fuel - 1)

\* the first slots of all the windows of 2n slots of the storage
AllWindowBases(n) == {w * 2 * n : w \in 0 .. (capacity \div (2 * n)) - 1}

----------------------------------------------------------------------------
(* C31: for every key and every group size G of which the capacity is a    *)
(* multiple of 2G (with at least two windows, so that the step is          *)
(* defined), the initial window of the key and the capacity/2G - 1 windows *)
(* the group next_slot returns after it are all the capacity/2G windows of *)
(* the storage.                                                            *)
C31_ProbeSequenceVisitsEveryWindow ==
  \A n \in GroupSizes, k \in Keys :
    ValidGroup(n) =>
      WindowBases(n, initial_slot_cg(n, 0, k), k, capacity \div (2 * n))
        = AllWindowBases(n)

----------------------------------------------------------------------------
\* the slots a single lane inspects: slot s, then `fuel - 1` applications
\* of next_slot, in order
RECURSIVE ProbeSlots(_, _)
ProbeSlots(s, fuel) ==
  IF fuel = 0 THEN <<>>
  ELSE <<s>> \o ProbeSlots(next_slot(s), fuel - 1)

\* the group g is inside a call of the single-lane insert
InSingleLaneInsert(g) == cg_size[g] = 0 /\ pc[g] # "idle"

(* C32: the single-lane probe sequence of every key starts at slot         *)
(* hash(key) mod capacity; next_slot of slot s is slot s + 1, and slot 0   *)
(* for the last slot; every slot of the sequence is a slot of the storage, *)
(* a lane inside the single-lane insert is at such a slot, and any         *)
(* `capacity` consecutive slots of the sequence are all the slots of the   *)
(* storage, each one once, the next one being the first again.             *)
C32_LinearProbeVisitsEverySlotOnce ==
  /\ \A k \in Keys :
       initial_slot(k) = hash(k) % capacity /\ initial_slot(k) \in Slots
  /\ \A s \in Slots :
       /\ next_slot(s) = (IF s = capacity - 1 THEN 0 ELSE s + 1)
       /\ LET seq == ProbeSlots(s, capacity + 1) IN
            /\ \A i \in 1 .. capacity : seq[i] \in Slots
            /\ \A i \in 1 .. capacity, j \in 1 .. capacity :
                 i # j => seq[i] # seq[j]
            /\ {seq[i] : i \in 1 .. capacity} = Slots
            /\ seq[capacity + 1] = s
  /\ \A g \in Groups :
       InSingleLaneInsert(g) => current_slot[g][0] \in Slots

\* a single-lane insert that started at a later slot has wrapped from the
\* last slot to slot 0 and is reading a slot before its initial slot
C32_Witness ==
  \E g \in Groups :
    /\ InSingleLaneInsert(g)
    /\ pc[g] = "read"
    /\ current_slot[g][0] < initial_slot(insert_pair[g].first)

----------------------------------------------------------------------------
(* What the claims on the iteration of find_all speak of *)

\* the slot d places after slot s in the order of the iterator, which wraps
\* from the last slot to slot 0
After(s, d) == (s + d) % capacity

\* the distances from s, 1 to capacity, at which the iterator looking for k
\* stops: a slot holding k or an empty slot
Stops(s, k) ==
  {d \in 1 .. capacity :
     slots[After(s, d)].first \in {k, empty_key_sentinel}}

\* the distance from s of the first empty slot after s
FirstEmptyAfter(s) ==
  Lowest({d \in 1 .. capacity : slots[After(s, d)].first = empty_key_sentinel})

\* the slots holding k at the distances lo .. hi from s, nearest first
RECURSIVE MatchesBetween(_, _, _, _)
MatchesBetween(s, k, lo, hi) ==
  IF lo > hi THEN <<>>
  ELSE (IF slots[After(s, lo)].first = k THEN <<After(s, lo)>> ELSE <<>>)
         \o MatchesBetween(s, k, lo + 1, hi)

\* repeated operator++ from cur comes to end() within `fuel` advances
RECURSIVE ReachesEnd(_, _, _)
ReachesEnd(cur, k, fuel) ==
  IF cur = end THEN TRUE
  ELSE IF cur = Diverges \/ fuel = 0 THEN FALSE
  ELSE ReachesEnd(increment(cur, k), k, fuel - 1)

----------------------------------------------------------------------------
(* C33: operator++ on a find_all iterator for key k at slot s, when a slot *)
(* holding k or an empty slot comes after s, moves the iterator to the     *)
(* first slot after s, in the wrapping slot order, that holds k, or to     *)
(* end() when an empty slot comes before any such slot; its result is      *)
(* end() or a slot holding k, and so is the result of every advance made.  *)
(* When the table has an empty slot, repeated advancing from a slot        *)
(* holding k comes to end() within `capacity` advances, and the slots it   *)
(* rests on are that slot and the slots holding k between it and the first *)
(* empty slot after it, each once and in slot order.                       *)
C33_AdvanceStopsAtNextMatchOrEnd ==
  /\ \A k \in Keys, s \in Slots :
       Stops(s, k) # {} =>
         LET d == Lowest(Stops(s, k)) IN
           /\ increment(s, k) =
                (IF slots[After(s, d)].first = k THEN After(s, d) ELSE end)
           /\ increment(s, k) # end => slots[increment(s, k)].first = k
  /\ lk.op = "increment" =>
       /\ lk.res = increment(lk.from, lk.key)
       /\ lk.res = end \/ slots[lk.res].first = lk.key
  /\ \A k \in Keys, s \in Slots :
       (slots[s].first = k /\ \E e \in Slots : slots[e].first = empty_key_sentinel) =>
         /\ ReachesEnd(s, k, capacity)
         /\ Yielded(s, k, capacity + 1) =
              <<s>> \o MatchesBetween(s, k, 1, FirstEmptyAfter(s) - 1)

\* an advance has passed over a slot holding another key and come to rest
\* on the next slot holding the searched key
C33_Witness ==
  /\ lk.op = "increment"
  /\ lk.res # end
  /\ \E d \in 2 .. capacity - 1 :
       /\ lk.res = After(lk.from, d)
       /\ \A i \in 1 .. d - 1 :
            slots[After(lk.from, i)].first \notin {lk.key, empty_key_sentinel}

----------------------------------------------------------------------------
(* C34: with no insert in flight, in every table built by at most          *)
(* `capacity` inserts, a table without an empty slot included, the         *)
(* single-lane lookups return: find of a key that was never inserted,      *)
(* count of every key, and the iteration of find_all from its first result *)
(* by repeated operator++, which comes to end(); and the iteration rests   *)
(* on no slot twice.                                                       *)
C34_LookupsTerminateOnFullTable ==
  Quiescent =>
    \A k \in Keys :
      /\ KeyCalls(k) = 0 => find(k) # Diverges
      /\ count(k) # Diverges
      /\ ReachesEnd(find_all(k), k, capacity + 1)
      /\ LET y == Yielded(find_all(k), k, capacity + 1) IN
           \A i \in DOMAIN y, j \in DOMAIN y : i # j => y[i] # y[j]

----------------------------------------------------------------------------
\* the lookups of key k by a single lane return and agree
LookupsAgree(k) ==
  LET y == Yielded(find_all(k), k, capacity + 1) IN
    /\ find(k) # Diverges
    /\ count(k) # Diverges
    /\ ReachesEnd(find_all(k), k, capacity + 1)
    /\ contains(k) <=> (find(k) # end)
    /\ (find(k) # end) <=> (count(k) > 0)
    /\ (count(k) > 0) <=> (Len(y) > 0)
    /\ count(k) = Len(y)

\* the lookups of key k by a group of n lanes return and agree
LookupsAgreeCG(n, k) ==
  LET y == Yielded(find_all_cg(n, k), k, capacity + 1) IN
    /\ find_cg(n, k) # Diverges
    /\ count_cg(n, k) # Diverges
    /\ ReachesEnd(find_all_cg(n, k), k, capacity + 1)
    /\ contains_cg(n, k) <=> (find_cg(n, k) # end)
    /\ (find_cg(n, k) # end) <=> (count_cg(n, k) > 0)
    /\ (count_cg(n, k) > 0) <=> (Len(y) > 0)
    /\ count_cg(n, k) = Len(y)

(* C35: with no insert in flight, for every key k the lookups return and   *)
(* agree, made by a single lane or by a group of any size: contains(k) is  *)
(* true exactly when find(k) is not end(), exactly when count(k) > 0,      *)
(* exactly when the iteration of find_all(k) yields a slot, and count(k)   *)
(* is the number of slots that iteration yields.                           *)
C35_LookupsAgree ==
  Quiescent =>
    \A k \in Keys :
      /\ LookupsAgree(k)
      /\ \A n \in ValidGroups : LookupsAgreeCG(n, k)

----------------------------------------------------------------------------
\* the lane of rank r of group g has returned from make_copy
Returned_copy(g, r) == r \in DOMAIN mc[g] /\ mc[g][r].pc = "returned"

\* every lane that has returned from make_copy holds a view of its group's
\* buffer with the capacity and sentinels of the source, every slot of the
\* buffer equals the source slot, and find and count through the copy give
\* what they give through the source
ReturnedCopiesAreComplete ==
  \A g \in Groups, r \in Ranks :
    Returned_copy(g, r) =>
      /\ mc[g][r].ret = device_view(<<"memory_to_use", g>>, capacity,
                                    empty_key_sentinel, empty_value_sentinel)
      /\ DOMAIN memory_to_use[g] = Slots
      /\ \A i \in Slots : memory_to_use[g][i] = slots[i]
      /\ \A k \in Keys :
           /\ copy_find(memory_to_use[g], k) = copy_find(slots, k)
           /\ copy_find(slots, k) = find(k)

(* C36: after every step, a lane that has returned from make_copy holds a  *)
(* view over the buffer its group passed, with the capacity and the        *)
(* sentinels of the source view; all `capacity` slots of the buffer equal  *)
(* the source slots, so that no lane has returned before the copy is       *)
(* complete; find and count on the copy return what they return on the     *)
(* source; and no step made once make_copy has been called changes a slot  *)
(* of the source.                                                          *)
C36_MakeCopyReturnsCompleteCopy ==
  [][/\ ReturnedCopiesAreComplete'
     /\ Copiers # {} => slots' = slots]_vars

----------------------------------------------------------------------------
(* C37: on a storage of more than 2^32 slots, the group next_slot applied  *)
(* by a lane at slot index i, with the step of the group, puts the lane at *)
(* slot index (i + step) mod capacity, whether i is below 2^32 or not.     *)
C37_NextSlotIsExactOnWideCapacity ==
  [][\A g \in Groups :
       (pc[g] = "probing" /\ pc'[g] = "advanced") =>
         \A r \in Lanes(cg_size[g]) :
           current_slot'[g][r] =
             ModW(AddW(current_slot[g][r], step_size_[g]), capacity)]_vars

====
